---- MODULE Spec2Model ----
(***************************************************************************)
(* Model of the dual-model comparison workflow of the AI service           *)
(* (AIService.getDualAnalysis, getOpenAIResponse, getClaudeResponse,       *)
(* selectBestResponse).  JavaScript values are modelled as records of a    *)
(* uniform shape; promises as records carrying their status.               *)
(***************************************************************************)
EXTENDS Integers, Sequences, FiniteSets, TLC

\* ------------------------------------------------------------------ bounds
\* Number of distinct texts a backend can generate.
MaxTexts == 2
\* Number of getDualAnalysis calls followed in one behaviour.
MaxCalls == 2

\* --------------------------------------------------------------- JS values
Backends == {"openai", "claude"}

Undefined == "undefined"
Null == "null"

Texts == {ToString(i) : i \in 1..MaxTexts}

\* Values an SDK call can be rejected with: Error objects (with a message,
\* possibly the empty one), a primitive (no message property), and null.
ErrorObj(m) == [type |-> "Error", message |-> m]
ErrMsgs == {"Request timed out", "401 invalid api key", ""}
StringPrimitive == [type |-> "string", message |-> Undefined]
NullThrown == [type |-> "null", message |-> Undefined]
ThrownValues == {ErrorObj(m) : m \in ErrMsgs} \cup {StringPrimitive, NullThrown}

\* The TypeErrors raised by reading a property of null and of undefined.
TypeErrorOfNull == ErrorObj("Cannot read properties of null (reading 'message')")
TypeErrorOfUndefined == ErrorObj("Cannot read properties of undefined (reading 'message')")
\* The SyntaxError raised by JSON.parse.
SyntaxErrorValue == ErrorObj("Unexpected token in JSON")
NoReason == [type |-> "none", message |-> Undefined]

\* Reading v.message: throws for null/undefined, otherwise yields the
\* property (undefined for a primitive or an object without it).
ReadMessage(v) ==
  IF v.type \in {"null", "undefined"}
    THEN [threw |-> TRUE, value |-> Undefined]
    ELSE [threw |-> FALSE, value |-> v.message]

\* A GenerationResult object, and the null that stands in a result slot.
GenResult(t, m) == [kind |-> "object", content |-> t, model |-> m]
NullResult == [kind |-> "null", content |-> Undefined, model |-> Undefined]
Truthy(r) == r.kind # "null"

\* ---------------------------------------------------------------- promises
PendingPromise == [status |-> "pending", value |-> NullResult, reason |-> NoReason]
NoPromise == [status |-> "none", value |-> NullResult, reason |-> NoReason]
Fulfilled(v) == [status |-> "fulfilled", value |-> v, reason |-> NoReason]
Rejected(e) == [status |-> "rejected", value |-> NullResult, reason |-> e]

\* What the SDK's create() promise settles to: a response carrying a text,
\* a response whose choices/content array is empty, or a rejection.
SdkOutcomes(texts) ==
  {[kind |-> "response", text |-> t, thrown |-> NoReason] : t \in texts}
    \cup {[kind |-> "empty", text |-> Undefined, thrown |-> NoReason]}
    \cup {[kind |-> "reject", text |-> Undefined, thrown |-> e] : e \in ThrownValues}

\* Mutant: the catch block rethrows without reading error.message.
CatchRethrowOnly(e) == Rejected(e)

\* The catch block of both wrappers: logs error.message, then rethrows.
\* Reading error.message of null raises a TypeError in its place.
CatchLogRethrow(e) ==
  IF ReadMessage(e).threw THEN Rejected(TypeErrorOfNull) ELSE Rejected(e)

\* ------------------------------------------------- the two backend wrappers
DefaultOpenAIModel == "gpt-4-turbo-preview"
FineTunedModelName == "ft:gpt-3.5-turbo:healthcare"

\* The service object after construction: fineTunedModel is the environment
\* variable OPENAI_FINE_TUNED_MODEL, or null.
Configurations == {[fineTunedModel |-> Null], [fineTunedModel |-> FineTunedModelName]}

\* this.fineTunedModel || options.model || 'gpt-4-turbo-preview', for callers
\* that pass no options.model.
OpenAIModel(cfg) ==
  IF cfg.fineTunedModel = Null THEN DefaultOpenAIModel ELSE cfg.fineTunedModel
ReportedClaudeModel == "claude-3-5-sonnet-20241022"

\* getOpenAIResponse, from the point where the SDK promise has settled to o.
\* An empty choices array makes response.choices[0].message raise a
\* TypeError inside the try block.
GetOpenAIResponse(o, model) ==
  CASE o.kind = "response" -> Fulfilled(GenResult(o.text, model))
    [] o.kind = "empty" -> CatchLogRethrow(TypeErrorOfUndefined)
    [] OTHER -> CatchLogRethrow(o.thrown)

\* getClaudeResponse, likewise (response.content[0].text).
GetClaudeResponse(o) ==
  CASE o.kind = "response" -> Fulfilled(GenResult(o.text, ReportedClaudeModel))
    [] o.kind = "empty" -> CatchLogRethrow(TypeErrorOfUndefined)
    [] OTHER -> CatchLogRethrow(o.thrown)

\* Position of each backend's promise in the array given to
\* Promise.allSettled, and the backend at each position.
Position == [openai |-> 1, claude |-> 2]
BackendAt == <<"openai", "claude">>

Wrapper(b, o, model) ==
  IF b = "openai" THEN GetOpenAIResponse(o, model) ELSE GetClaudeResponse(o)

\* Mutant: Promise.all, which settles as soon as one input is rejected.
FailFastReady(ps) ==
  \/ \A i \in DOMAIN ps : ps[i].status = "fulfilled"
  \/ \E i \in DOMAIN ps : ps[i].status = "rejected"

\* Mutant: a join that waits until every input is fulfilled.
AllFulfilledReady(ps) == \A i \in DOMAIN ps : ps[i].status = "fulfilled"

\* Promise.allSettled: settles once no input promise is pending ...
AllSettledReady(ps) == \A i \in DOMAIN ps : ps[i].status \in {"fulfilled", "rejected"}

\* Mutant: the outcomes are listed in the order in which they arrived.
AllSettledByArrival(ps, arrival) ==
  IF Len(arrival) = Len(ps) THEN [i \in DOMAIN ps |-> ps[arrival[i]]] ELSE ps

\* ... and its value lists the outcomes in input order, whatever the order
\* (arrival) in which the inputs settled.
AllSettledValue(ps, arrival) == ps

\* ------------------------------------------------------- the judge's reply
ScoresAB == "A:9/8/9 B:7/7/8"
ScoresBA == "A:6/7/6 B:9/9/8"

ReplySelectsA == "{selected:A, reasoning:clearer, scores:A:9/8/9 B:7/7/8}"
ReplySelectsB == "{selected:B, reasoning:more complete, scores:A:6/7/6 B:9/9/8}"
ReplyUnknownLabel == "{selected:C, reasoning:clearer, scores:A:9/8/9 B:7/7/8}"
ReplyNoLabel == "{reasoning:more complete}"
ReplyEmptyObject == "{}"
ReplyJsonNull == "null"
ReplyJsonNumber == "42"
ReplyFenced == "json fence {selected:A, reasoning:clearer} fence"
ReplyProse == "I would pick response A."

JudgeReplies ==
  {ReplySelectsA, ReplySelectsB, ReplyUnknownLabel, ReplyNoLabel, ReplyEmptyObject,
   ReplyJsonNull, ReplyJsonNumber, ReplyFenced, ReplyProse}

ParsedObject(sel, why, sc) ==
  [type |-> "object", selected |-> sel, reasoning |-> why, scores |-> sc]
ParsedNull == [type |-> "null", selected |-> Undefined, reasoning |-> Undefined, scores |-> Undefined]
ParsedNumber == [type |-> "number", selected |-> Undefined, reasoning |-> Undefined, scores |-> Undefined]

\* JSON.parse on the replies above: the parsed value, or a SyntaxError.
JSONParse(text) ==
  CASE text = ReplySelectsA -> [threw |-> FALSE, value |-> ParsedObject("A", "clearer", ScoresAB)]
    [] text = ReplySelectsB -> [threw |-> FALSE, value |-> ParsedObject("B", "more complete", ScoresBA)]
    [] text = ReplyUnknownLabel -> [threw |-> FALSE, value |-> ParsedObject("C", "clearer", ScoresAB)]
    [] text = ReplyNoLabel ->
         [threw |-> FALSE, value |-> ParsedObject(Undefined, "more complete", Undefined)]
    [] text = ReplyEmptyObject ->
         [threw |-> FALSE, value |-> ParsedObject(Undefined, Undefined, Undefined)]
    [] text = ReplyJsonNull -> [threw |-> FALSE, value |-> ParsedNull]
    [] text = ReplyJsonNumber -> [threw |-> FALSE, value |-> ParsedNumber]
    [] OTHER -> [threw |-> TRUE, value |-> ParsedNull]

\* ---------------------------------------------------- selectBestResponse
DefaultReasoning == "Default selection due to evaluation error"

Outcome(w, c, why, sc) ==
  [kind |-> "object", winner |-> w, content |-> c, reasoning |-> why, scores |-> sc]
NoOutcome ==
  [kind |-> "absent", winner |-> Undefined, content |-> Undefined,
   reasoning |-> Undefined, scores |-> Undefined]

\* Mutant: the default outcome names the other backend as winner.
DefaultOutcomeNamesOpenai(claudeResult) ==
  Outcome("openai", claudeResult.content, DefaultReasoning, Undefined)

\* The catch block: the default outcome, always Claude's text, no scores.
DefaultOutcome(claudeResult) ==
  Outcome("claude", claudeResult.content, DefaultReasoning, Undefined)

\* Mutant: the label is mapped to the wrong backend.
OutcomeFromParsedSwapped(parsed, openaiResult, claudeResult) ==
  IF parsed.type = "null"
    THEN DefaultOutcome(claudeResult)
    ELSE Outcome(IF parsed.selected = "A" THEN "claude" ELSE "openai",
                 IF parsed.selected = "A" THEN claudeResult.content ELSE openaiResult.content,
                 parsed.reasoning,
                 parsed.scores)

\* Mutant: a label other than A and B gives the default outcome.
OutcomeFromParsedKnownLabels(parsed, openaiResult, claudeResult) ==
  IF parsed.type = "null" \/ parsed.selected \notin {"A", "B"}
    THEN DefaultOutcome(claudeResult)
    ELSE Outcome(IF parsed.selected = "A" THEN "openai" ELSE "claude",
                 IF parsed.selected = "A" THEN openaiResult.content ELSE claudeResult.content,
                 parsed.reasoning,
                 parsed.scores)

\* The object built from a parsed reply; reading parsed.selected of null
\* raises a TypeError, which the surrounding try catches.
OutcomeFromParsed(parsed, openaiResult, claudeResult) ==
  IF parsed.type = "null"
    THEN DefaultOutcome(claudeResult)
    ELSE Outcome(IF parsed.selected = "A" THEN "openai" ELSE "claude",
                 IF parsed.selected = "A" THEN openaiResult.content ELSE claudeResult.content,
                 parsed.reasoning,
                 parsed.scores)

\* The selection prompt is a template literal reading both results' content
\* outside the try block: a null result makes it raise.
SelectionPromptThrows(openaiResult, claudeResult) ==
  ~Truthy(openaiResult) \/ ~Truthy(claudeResult)

\* Mutant: the catch block reports the error it caught as the rationale.
SelectBestResponseReportsError(openaiResult, claudeResult, evaluation) ==
  IF evaluation.status = "rejected"
    THEN Outcome("claude", claudeResult.content, evaluation.reason.message, Undefined)
    ELSE LET p == JSONParse(evaluation.value.content)
         IN IF p.threw
              THEN Outcome("claude", claudeResult.content, SyntaxErrorValue.message, Undefined)
              ELSE OutcomeFromParsed(p.value, openaiResult, claudeResult)

\* selectBestResponse from the point where the evaluation promise (the
\* judge's getOpenAIResponse) has settled.
SelectBestResponse(openaiResult, claudeResult, evaluation) ==
  IF evaluation.status = "rejected"
    THEN DefaultOutcome(claudeResult)
    ELSE LET p == JSONParse(evaluation.value.content)
         IN IF p.threw
              THEN DefaultOutcome(claudeResult)
              ELSE OutcomeFromParsed(p.value, openaiResult, claudeResult)

\* -------------------------------------------------------- getDualAnalysis
\* A result slot: the fulfilled value, or null.
Slot(response) == IF response.status = "fulfilled" THEN response.value ELSE NullResult

\* Mutant: the second if statement tests and reads openaiResponse again.
ErrorsOfCopyPaste(openaiResponse, claudeResponse) ==
  [b \in {x \in Backends : openaiResponse.status = "rejected"} |->
     ReadMessage(openaiResponse.reason).value]

\* Mutant: both keys are always written, undefined where the call succeeded.
ErrorsOfAlwaysKeyed(openaiResponse, claudeResponse) ==
  LET resp == [openai |-> openaiResponse, claude |-> claudeResponse]
  IN [b \in Backends |-> resp[b].reason.message]

\* results.errors after the two if statements: one key per rejected call,
\* holding reason.message.
ErrorsOf(openaiResponse, claudeResponse) ==
  LET resp == [openai |-> openaiResponse, claude |-> claudeResponse]
  IN [b \in {x \in Backends : resp[x].status = "rejected"} |->
        ReadMessage(resp[b].reason).value]

\* reason.message raises when the rejection value is null or undefined.
BuildThrows(openaiResponse, claudeResponse) ==
  \E r \in {openaiResponse, claudeResponse} :
    r.status = "rejected" /\ ReadMessage(r.reason).threw

BuildResults(openaiResponse, claudeResponse) ==
  [openai |-> Slot(openaiResponse),
   claude |-> Slot(claudeResponse),
   errors |-> ErrorsOf(openaiResponse, claudeResponse),
   selected |-> NoOutcome]

NoResults ==
  [openai |-> NullResult, claude |-> NullResult,
   errors |-> [b \in {} |-> Undefined], selected |-> NoOutcome]

\* Mutant: the guard forgets the two null checks.
ShouldSelectUnguarded(opts, r) == opts.selectBest

\* Mutant: the guard forgets the selectBest option.
ShouldSelectAlways(opts, r) == Truthy(r.openai) /\ Truthy(r.claude)

\* The condition guarding the call of selectBestResponse.
ShouldSelect(opts, r) == opts.selectBest /\ Truthy(r.openai) /\ Truthy(r.claude)

\* Mutant: only the first wrapper is called before the await.
IssuedOnlyOpenai == {"openai"}

\* The backends whose generation request is issued before the await.
IssuedBeforeAwait == {"openai", "claude"}

\* Numbers the caller may pass as options.temperature (range 0 to 2) and as
\* options.maxTokens, written as decimal strings; Undefined when not passed.
Temperatures == {Undefined, "0", "0.2", "2"}
MaxTokenValues == {Undefined, "500"}
DefaultTemperature == "0.7"
DefaultMaxTokens == "2000"
JudgeTemperature == "0.3"

\* a || b on these values: undefined and the number 0 are falsy.
OrElse(a, b) == IF a \in {Undefined, "0"} THEN b ELSE a

\* The body of the chat.completions.create call of getOpenAIResponse.
OpenAIRequest(purpose, opts, model) ==
  [to |-> "openai", purpose |-> purpose, model |-> model,
   temperature |-> OrElse(opts.temperature, DefaultTemperature),
   max_tokens |-> OrElse(opts.maxTokens, DefaultMaxTokens)]

\* The body of the messages.create call of getClaudeResponse: it has no
\* temperature field.
ClaudeRequest(purpose, opts) ==
  [to |-> "claude", purpose |-> purpose, model |-> ReportedClaudeModel,
   temperature |-> Undefined,
   max_tokens |-> OrElse(opts.maxTokens, DefaultMaxTokens)]

GenerationRequest(b, opts, model) ==
  IF b = "openai" THEN OpenAIRequest("generate", opts, model)
                  ELSE ClaudeRequest("generate", opts)

\* Mutant: selectBestResponse passes no options to getOpenAIResponse.
JudgeOptionsOmitted == [temperature |-> Undefined, maxTokens |-> Undefined]

\* The options literal selectBestResponse passes to getOpenAIResponse.
JudgeOptions == [temperature |-> JudgeTemperature, maxTokens |-> Undefined]

\* The judge's request goes through getOpenAIResponse.
JudgeRequest(model) == OpenAIRequest("judge", JudgeOptions, model)

\* The options objects a caller may pass.
CallerOptions ==
  [selectBest : BOOLEAN, temperature : Temperatures, maxTokens : MaxTokenValues]

\* The options objects the callers inside the repository pass (the service's
\* own analysis methods and POST /ai/analyze): selectBest only.
RepositoryOptions ==
  {o \in CallerOptions : o.temperature = Undefined /\ o.maxTokens = Undefined}

\* ------------------------------------------------- routes and middleware
\* A route: its middleware chain (the handler runs after it), the action of
\* its auditLog middleware, the status its handler answers on success and
\* the statuses it answers otherwise, the tables its handler writes on
\* success, whether the user record it writes is the caller's own, and
\* whether its successful response carries patient data fetched from EPIC.
Route(name, chain, audit, success, failures, writes, own, epic) ==
  [name |-> name, chain |-> chain, audit |-> audit, success |-> success,
   failures |-> failures, writes |-> writes, own |-> own, epic |-> epic]

NoAudit == "none"
Auth == <<"authenticate">>
AuthAdmin == <<"authenticate", "orgAdminOrAbove">>
AuthAdminAudit == <<"authenticate", "orgAdminOrAbove", "auditLog">>
AuthSuper == <<"authenticate", "superAdminOnly">>
AuthSuperAudit == <<"authenticate", "superAdminOnly", "auditLog">>
AuthEpic == <<"authenticate", "getEpicService">>
AuthEpicAudit == <<"authenticate", "getEpicService", "auditLog">>
AuthConn == <<"authenticate", "requireEpicConnection">>
AuthConnAudit == <<"authenticate", "requireEpicConnection", "auditLog">>

PatientRoutes ==
  {Route("patients GET /", AuthEpic, NoAudit, 200, {500}, {}, FALSE, TRUE),
   Route("patients GET /:id", AuthEpicAudit, "VIEW_PATIENT", 200, {500}, {}, FALSE, TRUE),
   Route("patients POST /:id/analyze", AuthEpic, NoAudit, 200, {500}, {}, FALSE, TRUE),
   Route("patients GET /:id/care-gaps", AuthEpic, NoAudit, 200, {500}, {}, FALSE, TRUE),
   Route("patients POST /bulk-analyze", AuthEpic, NoAudit, 200, {400, 500}, {}, FALSE, TRUE)}

AdminRoutes ==
  {Route("admin GET /organizations", AuthSuper, NoAudit, 200, {500}, {}, FALSE, FALSE),
   Route("admin PUT /organizations/:id", AuthSuperAudit, "UPDATE_ORGANIZATION", 200,
         {404, 500}, {"organization"}, FALSE, FALSE),
   Route("admin GET /users", AuthAdmin, NoAudit, 200, {500}, {}, FALSE, FALSE),
   Route("admin POST /users", AuthAdminAudit, "CREATE_USER", 201, {400, 403, 500},
         {"user"}, FALSE, FALSE),
   Route("admin PUT /users/:id", AuthAdminAudit, "UPDATE_USER", 200, {403, 404, 500},
         {"user"}, FALSE, FALSE),
   Route("admin DELETE /users/:id", AuthAdminAudit, "DEACTIVATE_USER", 200, {400, 404, 500},
         {"user"}, FALSE, FALSE),
   Route("admin POST /users/:id/reset-password", AuthAdminAudit, "RESET_PASSWORD", 200,
         {400, 404, 500}, {"user"}, FALSE, FALSE),
   Route("admin GET /settings", AuthAdmin, NoAudit, 200, {500}, {}, FALSE, FALSE),
   Route("admin PUT /settings", AuthAdminAudit, "UPDATE_SETTINGS", 200, {500},
         {"organization"}, FALSE, FALSE)}

EpicRoutes ==
  {Route("epic GET /patients", AuthConnAudit, "FETCH_PATIENTS", 200, {500}, {}, FALSE, TRUE),
   Route("epic GET /patients/:id", AuthConnAudit, "FETCH_PATIENT", 200, {500}, {}, FALSE, TRUE),
   Route("epic GET /patients/:id/conditions", AuthConn, NoAudit, 200, {500}, {}, FALSE, TRUE),
   Route("epic GET /patients/:id/everything", AuthConnAudit, "FETCH_PATIENT_EVERYTHING",
         200, {500}, {}, FALSE, TRUE),
   Route("epic POST /search", AuthConn, NoAudit, 200, {500}, {}, FALSE, TRUE)}

CampaignRoutes ==
  {Route("campaigns GET /", Auth, NoAudit, 200, {500}, {}, FALSE, FALSE),
   Route("campaigns POST /", AuthAdminAudit, "CREATE_CAMPAIGN", 201, {400, 500},
         {"campaign"}, FALSE, FALSE),
   Route("campaigns POST /:id/target-patients", AuthAdmin, NoAudit, 200, {400, 404, 500},
         {"campaign"}, FALSE, TRUE),
   Route("campaigns POST /:id/generate-content", AuthAdmin, NoAudit, 200, {400, 404, 500},
         {"outreach"}, FALSE, FALSE),
   Route("campaigns POST /:id/send", AuthAdminAudit, "SEND_CAMPAIGN", 200, {400, 404, 500},
         {"campaign", "outreach"}, FALSE, FALSE),
   Route("campaigns POST /:id/pause", AuthAdmin, NoAudit, 200, {404, 500},
         {"campaign"}, FALSE, FALSE),
   Route("campaigns POST /:id/complete", AuthAdmin, NoAudit, 200, {404, 500},
         {"campaign"}, FALSE, FALSE)}

CarePlanRoutes ==
  {Route("care-plans GET /", Auth, NoAudit, 200, {500}, {}, FALSE, FALSE),
   Route("care-plans POST /", AuthAdminAudit, "CREATE_CARE_PLAN", 201, {400, 500},
         {"care_plan"}, FALSE, FALSE),
   Route("care-plans PUT /:id", AuthAdminAudit, "UPDATE_CARE_PLAN", 200, {404, 500},
         {"care_plan"}, FALSE, FALSE),
   Route("care-plans DELETE /:id", AuthAdminAudit, "DELETE_CARE_PLAN", 200, {404, 500},
         {"care_plan"}, FALSE, FALSE),
   Route("care-plans POST /:id/duplicate", AuthAdmin, NoAudit, 201, {404, 500},
         {"care_plan"}, FALSE, FALSE)}

\* Routes on which a caller changes the caller's own user record; register
\* and login run without the authenticate middleware.
AuthRoutes ==
  {Route("auth POST /register", <<>>, NoAudit, 201, {400, 500},
         {"organization", "user"}, TRUE, FALSE),
   Route("auth POST /login", <<>>, NoAudit, 200, {400, 401, 500}, {"user"}, TRUE, FALSE),
   Route("auth POST /epic/callback", Auth, NoAudit, 200, {500}, {"user"}, TRUE, FALSE),
   Route("auth POST /epic/disconnect", Auth, NoAudit, 200, {500}, {"user"}, TRUE, FALSE),
   Route("auth POST /change-password", Auth, NoAudit, 200, {400, 500}, {"user"}, TRUE, FALSE)}

Routes ==
  PatientRoutes \cup AdminRoutes \cup EpicRoutes \cup CampaignRoutes \cup CarePlanRoutes
    \cup AuthRoutes

\* The users a request can come from: one active user per role, with and
\* without an EPIC access token, and a caller without a valid token.
Roles == {"super_admin", "org_admin", "analyst", "viewer"}
Caller(role, epic) ==
  [id |-> role, role |-> role, organizationId |-> "org-1", epicAccessToken |-> epic]
Anonymous ==
  [id |-> "none", role |-> "none", organizationId |-> "none", epicAccessToken |-> FALSE]
Callers == {Caller(r, e) : r \in Roles, e \in BOOLEAN} \cup {Anonymous}

\* Mutant: the admin check also lets analysts through.
AdminRolesWithAnalyst == {"super_admin", "org_admin", "analyst"}

\* adminRoles of orgAdminOrAbove.
AdminRoles == {"super_admin", "org_admin"}

NoRoute == Route("none", <<>>, NoAudit, 0, {}, {}, FALSE, FALSE)

\* ------------------------------------------------------------- campaigns
MaxOutreach == 2

\* The campaign whose routes are called, and another campaign of the same
\* organization.
OwnCampaign == "c1"
OtherCampaign == "c2"
CampaignTypes == {"email", "mail", "sms"}

\* Handlers of POST /:id/send that may run at the same time.
Senders == {"s1", "s2"}

\* Patients as extractPatientContactInfo reports them: a field without a
\* value in the FHIR record is null.
Patients == {"p-email", "p-postal"}
PatientInfo(patientId) ==
  [email |-> IF patientId = "p-email" THEN "patient@example.org" ELSE Null,
   address |-> IF patientId = "p-postal" THEN "1 Main St" ELSE Null]

\* The text each backend writes for an outreach.
LetterBy == [openai |-> "letter by openai", claude |-> "letter by claude"]
LetterOutcomes(b) == SdkOutcomes({LetterBy[b]})

\* A column written with undefined is stored, and read back, as null.
Stored(v) == IF v = Undefined THEN Null ELSE v

\* The row OutreachHistory.create writes.
OutreachRecord(campaignId, patientId, aiContent, status) ==
  [campaignId |-> campaignId,
   patientFhirId |-> patientId,
   patientEmail |-> PatientInfo(patientId).email,
   patientAddress |-> PatientInfo(patientId).address,
   contentOpenAI |-> Stored(aiContent.openai.content),
   contentClaude |-> Stored(aiContent.claude.content),
   selectedContent |-> Stored(aiContent.selected.content),
   status |-> status]

\* The entries of the generate-content response.
ContentEntry(patientId, outreachId, aiContent) ==
  [patientId |-> patientId, error |-> FALSE, outreachId |-> outreachId,
   openai |-> aiContent.openai.content, claude |-> aiContent.claude.content,
   selected |-> aiContent.selected.winner]
ErrorEntry(patientId) ==
  [patientId |-> patientId, error |-> TRUE, outreachId |-> 0,
   openai |-> Undefined, claude |-> Undefined, selected |-> Undefined]

\* outreach.selectedContent || outreach.contentClaude
EmailContent(o) == IF o.selectedContent # Null THEN o.selectedContent ELSE o.contentClaude

\* Mutant: every campaign type looks at the email address.
HasContactEmailOnly(type, o) == o.patientEmail # Null

\* The test that lets a pending outreach be sent: patientEmail for an email
\* campaign, patientAddress for a mail campaign.
HasContact(type, o) ==
  IF type = "email" THEN o.patientEmail # Null ELSE o.patientAddress # Null

\* The handler's local state, before the request.
IdleSender ==
  [pc |-> "idle", sentCountRead |-> 0, pending |-> <<>>, at |-> 0,
   sentCount |-> 0, failedCount |-> 0, delivered |-> FALSE, status |-> 0]

\* ---------------------------------------------------------- organizations
\* Rows of the Campaign, CarePlan and User tables, each with the
\* organization it belongs to; the slot of a row not yet created is absent.
Row(kind, organizationId, isTemplate) ==
  [kind |-> kind, organizationId |-> organizationId, isTemplate |-> isTemplate]
AbsentRow == Row("absent", Null, FALSE)

OwnOrganization == "org-1"
OtherOrganization == "org-2"
Organizations == {OwnOrganization, OtherOrganization}

RowIds ==
  {"campaign-1", "campaign-2", "campaign-new", "plan-1", "plan-2", "plan-template",
   "user-1", "user-2"}

SeededRows ==
  [id \in RowIds |->
     CASE id = "campaign-1" -> Row("campaign", OwnOrganization, FALSE)
       [] id = "campaign-2" -> Row("campaign", OtherOrganization, FALSE)
       [] id = "plan-1" -> Row("care_plan", OwnOrganization, FALSE)
       [] id = "plan-2" -> Row("care_plan", OtherOrganization, FALSE)
       [] id = "plan-template" -> Row("care_plan", Null, TRUE)
       [] id = "user-1" -> Row("user", OwnOrganization, FALSE)
       [] id = "user-2" -> Row("user", OtherOrganization, FALSE)
       [] OTHER -> AbsentRow]

\* What a request did: its caller, the route, the rows its queries returned,
\* the rows it wrote and the status it answered.
Access(by, route, read, changed, status) ==
  [by |-> by, route |-> route, read |-> read, changed |-> changed, status |-> status]
NoAccess == Access(Anonymous, "none", {}, {}, 0)

VARIABLES
  config,        \* the service object's configuration
  pc,            \* where the current getDualAnalysis call stands
  options,       \* the options of the current call
  genPromise,    \* the promises of the two generation calls, in array order
  settleOrder,   \* array positions in the order in which they settled
  judgePromise,  \* the promise of the judge's getOpenAIResponse call
  results,       \* the results object of the current call
  requests,      \* outbound requests of the current call, in issue order
  calls,         \* number of calls started so far
  fallbackSeen   \* per pair of generated texts: the judge failures met so far,
                 \* each with the outcome selectBestResponse returned for it

aiVars == <<config, pc, options, genPromise, settleOrder, judgePromise, results, requests,
            calls, fallbackSeen>>

VARIABLES
  reqRoute,    \* the route of the request being handled
  reqUser,     \* its caller; req.user once authenticate has run
  reqStep,     \* 0: no request in flight; i: chain[i] runs next; past the chain: the handler
  resStatus,   \* the status of the response, 0 while none was sent
  sendHook,    \* the action of the auditLog wrapper installed on res.send
  audited,     \* AuditLog rows created for this request
  written      \* tables the request has written

routeVars == <<reqRoute, reqUser, reqStep, resStatus, sendHook, audited, written>>

RoutesIdle ==
  /\ reqRoute = NoRoute
  /\ reqUser = Anonymous
  /\ reqStep = 0
  /\ resStatus = 0
  /\ sendHook = NoAudit
  /\ audited = {}
  /\ written = {}

VARIABLES
  campaign,    \* the Campaign row of OwnCampaign
  outreach,    \* the OutreachHistory table; a row's id is its position
  mailbox,     \* per outreach row: the contents of the emails transmitted for it
  generated,   \* the content array of the last generate-content response
  sender       \* per handler of POST /:id/send: its local state

campVars == <<campaign, outreach, mailbox, generated, sender>>

\* A campaign as created, without outreach.
NewCampaign(type) == [type |-> type, status |-> "draft", sentCount |-> 0, patientCount |-> 0]

CampaignsIdle ==
  /\ campaign = NewCampaign("email")
  /\ outreach = <<>>
  /\ mailbox = <<>>
  /\ generated = <<>>
  /\ sender = [p \in Senders |-> IdleSender]

VARIABLES
  rows,        \* the Campaign, CarePlan and User rows, by id
  access       \* what the last request to a row-level route did

orgVars == <<rows, access>>

OrganizationsIdle ==
  /\ rows = SeededRows
  /\ access = NoAccess

\* ------------------------------------------------------- EPIC connection
MaxTime == 3
MaxIssued == 2

\* A Date column: <<>> is NULL, <<t>> the instant t.
NoDate == <<>>
DateAt(t) == <<t>>

\* The token response of EPIC's token endpoint; refresh_token may be absent.
TokenResponse(accessToken, refreshToken, expiresIn) ==
  [access_token |-> accessToken, refresh_token |-> refreshToken, expires_in |-> expiresIn]

\* The EPIC columns of the User row.
EpicColumns(accessToken, refreshToken, expiry) ==
  [epicAccessToken |-> accessToken, epicRefreshToken |-> refreshToken, epicTokenExpiry |-> expiry]
Disconnected == EpicColumns(Null, Null, NoDate)

\* A request sent to the FHIR server, with the access token in its headers.
FhirRequest(route, token, expired) == [route |-> route, token |-> token, expired |-> expired]
NoFhirRequest == FhirRequest("none", Null, FALSE)

VARIABLES
  epicUser,    \* the EPIC columns of the caller's User row
  now,         \* the clock
  issued,      \* how many token responses EPIC has given
  fhir,        \* the FHIR request of the last request handled
  epicStatus   \* the status the last request was answered with, 0 before any

tokenVars == <<epicUser, now, issued, fhir, epicStatus>>

TokensIdle ==
  /\ epicUser = Disconnected
  /\ now = 0
  /\ issued = 0
  /\ fhir = NoFhirRequest
  /\ epicStatus = 0

\* ------------------------------------------------------------ FHIR paging
MaxPages == 2
MaxEntries == 3

\* The URLs of the pages the server has.
PageUrls == {"page-1", "page-2"}

\* Bundle.link elements.
Link(relation, url) == [relation |-> relation, url |-> url]
SelfLink == Link("self", "page-0")

\* Searchset Bundles: entry and link may be absent.
EntryArrays == {<<>>, <<"e1">>, <<"e2">>, <<"e1", "e2">>}
LinkArrays == {<<SelfLink>>} \cup {<<SelfLink, Link("next", url)>> : url \in PageUrls}
Bundles ==
  {[resourceType |-> "Bundle"]}
    \cup {[resourceType |-> "Bundle", entry |-> entry] : entry \in EntryArrays}
    \cup {[resourceType |-> "Bundle", link |-> link] : link \in LinkArrays}
    \cup {[resourceType |-> "Bundle", entry |-> entry, link |-> link] :
            entry \in EntryArrays, link \in LinkArrays}

VARIABLES
  pagePc,      \* getAllPages: "idle", "loop" (at the while test), "awaiting", "done"
  allEntries,  \* its allEntries array
  nextUrl,     \* its nextUrl
  requested,   \* log: the URLs requested, in order
  pages,       \* log: the initial bundle and the bundles received, in order
  failed,      \* log: a page request was rejected
  overflow     \* log: more than MaxPages requests were made, the log is cut

pageVars == <<pagePc, allEntries, nextUrl, requested, pages, failed, overflow>>

PagesIdle ==
  /\ pagePc = "idle"
  /\ allEntries = <<>>
  /\ nextUrl = Null
  /\ requested = <<>>
  /\ pages = <<>>
  /\ failed = FALSE
  /\ overflow = FALSE

\* ------------------------------------------------------------ batchProcess
MaxPrompts == 6
MaxBatchOption == 2
DefaultBatchSize == 5

\* The options objects batchProcess is called with: without batchSize, or
\* with batchSize 0 up to MaxBatchOption.
BatchOptions ==
  {[temperature |-> "0.3"]} \cup {[batchSize |-> size] : size \in 0..MaxBatchOption}

VARIABLES
  batchPc,      \* batchProcess: "idle", "awaiting" (Promise.all), "delay", "done", "failed"
  promptCount,  \* prompts.length
  batchSize,    \* its batchSize
  batchI,       \* its loop variable i
  callState,    \* per prompt, its getDualAnalysis call: "unstarted", "running", "returned", "threw"
  resultsLen,   \* results.length
  timersSet,    \* how many rate-limiting timers were set
  timersFired   \* how many of them have fired

batchVars ==
  <<batchPc, promptCount, batchSize, batchI, callState, resultsLen, timersSet, timersFired>>

BatchIdle ==
  /\ batchPc = "idle"
  /\ promptCount = 0
  /\ batchSize = DefaultBatchSize
  /\ batchI = 0
  /\ callState = <<>>
  /\ resultsLen = 0
  /\ timersSet = 0
  /\ timersFired = 0

moreVars == <<orgVars, tokenVars, pageVars, batchVars>>
MoreIdle == OrganizationsIdle /\ TokensIdle /\ PagesIdle /\ BatchIdle

vars == <<aiVars, routeVars, campVars, moreVars>>


\* The state of the call, before any call was made.
NoCallYet ==
  /\ pc = "idle"
  /\ options = [selectBest |-> FALSE, temperature |-> Undefined, maxTokens |-> Undefined]
  /\ genPromise = <<NoPromise, NoPromise>>
  /\ settleOrder = <<>>
  /\ judgePromise = NoPromise
  /\ results = NoResults
  /\ requests = <<>>
  /\ calls = 0
  /\ fallbackSeen = [k \in Texts \X Texts |-> {}]

\* The service as deployed without a fine-tuned model.
Init == config = [fineTunedModel |-> Null] /\ NoCallYet /\ RoutesIdle /\ CampaignsIdle /\ MoreIdle

\* The service with or without a fine-tuned model configured.
InitAnyConfig ==
  config \in Configurations /\ NoCallYet /\ RoutesIdle /\ CampaignsIdle /\ MoreIdle

\* A caller invokes getDualAnalysis: both wrappers run up to their await of
\* the SDK call, then the function awaits Promise.allSettled.
Call(opts) ==
  /\ pc \in {"idle", "returned", "rejected"}
  /\ calls < MaxCalls
  /\ calls' = calls + 1
  /\ options' = opts
  /\ genPromise' = [i \in 1..2 |->
                      IF BackendAt[i] \in IssuedBeforeAwait THEN PendingPromise ELSE NoPromise]
  /\ requests' = SelectSeq(<<GenerationRequest("openai", opts, OpenAIModel(config)),
                             GenerationRequest("claude", opts, OpenAIModel(config))>>,
                           LAMBDA q : q.to \in IssuedBeforeAwait)
  /\ settleOrder' = <<>>
  /\ judgePromise' = NoPromise
  /\ results' = NoResults
  /\ pc' = "awaitAll"
  /\ UNCHANGED <<config, fallbackSeen>>
  /\ UNCHANGED <<routeVars, campVars, moreVars>>

\* The SDK promise of the generation call at array position i settles to o
\* and the wrapper's continuation runs.
SettleGeneration(i, o) ==
  /\ pc = "awaitAll"
  /\ genPromise[i].status = "pending"
  /\ genPromise' = [genPromise EXCEPT ![i] = Wrapper(BackendAt[i], o, OpenAIModel(config))]
  /\ settleOrder' = Append(settleOrder, i)
  /\ UNCHANGED <<config, pc, options, judgePromise, results, requests, calls, fallbackSeen>>
  /\ UNCHANGED <<routeVars, campVars, moreVars>>

\* Promise.allSettled has settled: getDualAnalysis resumes, builds results
\* and either returns or calls selectBestResponse, which issues the judge
\* request and awaits it.
Join ==
  /\ pc = "awaitAll"
  /\ AllSettledReady(genPromise)
  /\ LET settled == AllSettledValue(genPromise, settleOrder)
         openaiResponse == settled[1]
         claudeResponse == settled[2]
         r == BuildResults(openaiResponse, claudeResponse)
     IN IF BuildThrows(openaiResponse, claudeResponse)
          THEN /\ pc' = "rejected"
               /\ UNCHANGED <<results, requests, judgePromise>>
          ELSE IF ShouldSelect(options, r)
            THEN IF SelectionPromptThrows(r.openai, r.claude)
                   THEN /\ pc' = "rejected"
                        /\ UNCHANGED <<results, requests, judgePromise>>
                   ELSE /\ pc' = "awaitJudge"
                        /\ results' = r
                        /\ requests' = Append(requests, JudgeRequest(OpenAIModel(config)))
                        /\ judgePromise' = PendingPromise
            ELSE /\ pc' = "returned"
                 /\ results' = r
                 /\ UNCHANGED <<requests, judgePromise>>
  /\ UNCHANGED <<config, options, genPromise, settleOrder, calls, fallbackSeen>>
  /\ UNCHANGED <<routeVars, campVars, moreVars>>

\* The judge reply did not yield a parsed value: the call was rejected or
\* JSON.parse raised.
JudgeUnusable(evaluation) ==
  evaluation.status = "rejected" \/ JSONParse(evaluation.value.content).threw

\* The catch block of selectBestResponse logs error.message before it
\* returns: a null rejection value would make it raise.
SelectBestThrows(evaluation) ==
  evaluation.status = "rejected" /\ ReadMessage(evaluation.reason).threw

\* The judge's SDK promise settles to o: selectBestResponse resumes, its
\* outcome is stored in results.selected and getDualAnalysis returns.
SettleJudge(o) ==
  /\ pc = "awaitJudge"
  /\ judgePromise.status = "pending"
  /\ LET evaluation == GetOpenAIResponse(o, OpenAIModel(config))
         sel == SelectBestResponse(results.openai, results.claude, evaluation)
         key == <<results.openai.content, results.claude.content>>
     IN /\ judgePromise' = evaluation
        /\ IF SelectBestThrows(evaluation)
             THEN /\ pc' = "rejected"
                  /\ UNCHANGED <<results, fallbackSeen>>
             ELSE /\ pc' = "returned"
                  /\ results' = [results EXCEPT !.selected = sel]
                  /\ fallbackSeen' = IF JudgeUnusable(evaluation)
                                       THEN [fallbackSeen EXCEPT ![key] =
                                               @ \cup {[cause |-> o, outcome |-> sel]}]
                                       ELSE fallbackSeen
  /\ UNCHANGED <<config, options, genPromise, settleOrder, requests, calls>>
  /\ UNCHANGED <<routeVars, campVars, moreVars>>

Next ==
  \/ \E opts \in RepositoryOptions : Call(opts)
  \/ \E i \in 1..2 : \E o \in SdkOutcomes(Texts) : SettleGeneration(i, o)
  \/ Join
  \/ \E o \in SdkOutcomes(JudgeReplies) : SettleJudge(o)

Spec == Init /\ [][Next]_vars

\* One getDualAnalysis call with any options a caller may pass.
FirstCall(opts) == calls = 0 /\ Call(opts)

SettleAnyGeneration == \E i \in 1..2 : \E o \in SdkOutcomes(Texts) : SettleGeneration(i, o)
SettleAnyJudge == \E o \in SdkOutcomes(JudgeReplies) : SettleJudge(o)

NextOneCall ==
  \/ \E opts \in CallerOptions : FirstCall(opts)
  \/ SettleAnyGeneration
  \/ Join
  \/ SettleAnyJudge

SpecOneCall == InitAnyConfig /\ [][NextOneCall]_vars

\* Every request that was issued eventually settles, and a continuation
\* whose promise has settled is eventually run by the event loop.
FairOneCall ==
  /\ SpecOneCall
  /\ WF_vars(SettleAnyGeneration)
  /\ WF_vars(SettleAnyJudge)
  /\ WF_vars(Join)

\* ------------------------------------------------- handling of a request
\* The row the auditLog wrapper creates.
AuditRow(user, action) ==
  [userId |-> user.id, organizationId |-> user.organizationId, action |-> action]

\* The condition of the auditLog wrapper: res.statusCode < 400 && req.user.
ShouldAudit(status, user) == status < 400 /\ user # Anonymous

\* res.send through the wrapper, when one is installed: the response goes
\* out with the given status; AuditLog.create may fail, which is only logged.
Respond(status, tables, auditOk) ==
  /\ resStatus' = status
  /\ reqStep' = 0
  /\ written' = written \cup tables
  /\ audited' = IF sendHook # NoAudit /\ ShouldAudit(status, reqUser) /\ auditOk
                  THEN {AuditRow(reqUser, sendHook)}
                  ELSE {}
  /\ UNCHANGED <<reqRoute, reqUser, sendHook>>

PassOn ==
  /\ reqStep' = reqStep + 1
  /\ UNCHANGED <<reqRoute, reqUser, resStatus, sendHook, audited, written>>

Running(mw) ==
  /\ reqStep > 0
  /\ reqStep <= Len(reqRoute.chain)
  /\ reqRoute.chain[reqStep] = mw

\* A request arrives.
Receive(route, user) ==
  /\ reqStep = 0
  /\ reqRoute' = route
  /\ reqUser' = user
  /\ reqStep' = 1
  /\ resStatus' = 0
  /\ sendHook' = NoAudit
  /\ audited' = {}
  /\ written' = {}
  /\ UNCHANGED <<aiVars, campVars, moreVars>>

\* authenticate: 401 without a valid token of an active user.
Authenticate ==
  /\ Running("authenticate")
  /\ IF reqUser = Anonymous THEN Respond(401, {}, TRUE) ELSE PassOn
  /\ UNCHANGED <<aiVars, campVars, moreVars>>

OrgAdminOrAbove ==
  /\ Running("orgAdminOrAbove")
  /\ IF reqUser.role \notin AdminRoles THEN Respond(403, {}, TRUE) ELSE PassOn
  /\ UNCHANGED <<aiVars, campVars, moreVars>>

SuperAdminOnly ==
  /\ Running("superAdminOnly")
  /\ IF reqUser.role # "super_admin" THEN Respond(403, {}, TRUE) ELSE PassOn
  /\ UNCHANGED <<aiVars, campVars, moreVars>>

\* getEpicService of the patients router: 400 without an access token, 500
\* when the user lookup fails.
GetEpicService(lookupOk) ==
  /\ Running("getEpicService")
  /\ IF ~lookupOk THEN Respond(500, {}, TRUE)
     ELSE IF ~reqUser.epicAccessToken THEN Respond(400, {}, TRUE)
     ELSE PassOn
  /\ UNCHANGED <<aiVars, campVars, moreVars>>

\* requireEpicConnection of the epic router: 400 without an access token;
\* an expired token is refreshed and stored in the caller's user record, or
\* the request is answered 401.
RequireEpicConnection(token) ==
  /\ Running("requireEpicConnection")
  /\ IF ~reqUser.epicAccessToken THEN Respond(400, {}, TRUE)
     ELSE CASE token = "valid" -> PassOn
            [] token = "refreshed" ->
                 /\ reqStep' = reqStep + 1
                 /\ written' = written \cup {"user"}
                 /\ UNCHANGED <<reqRoute, reqUser, resStatus, sendHook, audited>>
            [] OTHER -> Respond(401, {}, TRUE)
  /\ UNCHANGED <<aiVars, campVars, moreVars>>

\* auditLog(action, resource): wraps res.send and passes on.
InstallAuditLog ==
  /\ Running("auditLog")
  /\ sendHook' = reqRoute.audit
  /\ reqStep' = reqStep + 1
  /\ UNCHANGED <<reqRoute, reqUser, resStatus, audited, written>>
  /\ UNCHANGED <<aiVars, campVars, moreVars>>

\* The route handler answers; it has written its tables when it answers with
\* its success status.
Handle(status, auditOk) ==
  /\ reqStep = Len(reqRoute.chain) + 1
  /\ status \in {reqRoute.success} \cup reqRoute.failures
  /\ Respond(status, IF status = reqRoute.success THEN reqRoute.writes ELSE {}, auditOk)
  /\ UNCHANGED <<aiVars, campVars, moreVars>>

TokenStates == {"valid", "refreshed", "expired"}

NextRoutes ==
  \/ \E route \in Routes : \E user \in Callers : Receive(route, user)
  \/ Authenticate
  \/ OrgAdminOrAbove
  \/ SuperAdminOnly
  \/ \E lookupOk \in BOOLEAN : GetEpicService(lookupOk)
  \/ \E token \in TokenStates : RequireEpicConnection(token)
  \/ InstallAuditLog
  \/ \E status \in {200, 201, 400, 401, 403, 404, 500} : \E auditOk \in BOOLEAN :
       Handle(status, auditOk)

SpecRoutes == Init /\ [][NextRoutes]_vars


\* ------------------------------------------------ campaign route handlers
\* getDualAnalysis as a function of what the three SDK calls settle to: it
\* returns the results object or throws.
Threw == [threw |-> TRUE, value |-> NoResults]
Returns(v) == [threw |-> FALSE, value |-> v]
GetDualAnalysis(opts, model, oOpenai, oClaude, oJudge) ==
  LET openaiResponse == GetOpenAIResponse(oOpenai, model)
      claudeResponse == GetClaudeResponse(oClaude)
      r == BuildResults(openaiResponse, claudeResponse)
      evaluation == GetOpenAIResponse(oJudge, model)
  IN IF BuildThrows(openaiResponse, claudeResponse) THEN Threw
     ELSE IF ~ShouldSelect(opts, r) THEN Returns(r)
     ELSE IF SelectionPromptThrows(r.openai, r.claude) \/ SelectBestThrows(evaluation) THEN Threw
     ELSE Returns([r EXCEPT !.selected = SelectBestResponse(r.openai, r.claude, evaluation)])

GenerateOutreachContent(model, oOpenai, oClaude, oJudge) ==
  GetDualAnalysis([selectBest |-> TRUE, temperature |-> Undefined, maxTokens |-> Undefined],
                  model, oOpenai, oClaude, oJudge)

\* What generateOutreachContent can come to, over everything the three SDK
\* calls can settle to, for the service as deployed.
OutreachAnalyses ==
  {GenerateOutreachContent(DefaultOpenAIModel, oOpenai, oClaude, oJudge) :
     oOpenai \in LetterOutcomes("openai"), oClaude \in LetterOutcomes("claude"),
     oJudge \in SdkOutcomes(JudgeReplies)}

\* The handler of POST /:id/generate-content for the patient list
\* <<patientId>>, the campaign found and the caller connected to EPIC: the
\* patient is fetched, the content generated (ai) and the outreach row
\* created; a failure of any of the three puts an error entry in the
\* response.
GenerateContent(patientId, fetched, ai) ==
  /\ Len(outreach) < MaxOutreach
  /\ IF ~fetched \/ ai.threw
       THEN /\ generated' = <<ErrorEntry(patientId)>>
            /\ UNCHANGED <<outreach, mailbox>>
       ELSE /\ outreach' = Append(outreach,
                             OutreachRecord(OwnCampaign, patientId, ai.value, "pending"))
            /\ mailbox' = Append(mailbox, <<>>)
            /\ generated' = <<ContentEntry(patientId, Len(outreach) + 1, ai.value)>>
  /\ UNCHANGED <<campaign, sender>>
  /\ UNCHANGED <<aiVars, routeVars, moreVars>>

\* OutreachHistory.findAll({campaignId, status: 'pending'}): the ids found.
PendingOf(campaignId) ==
  SelectSeq([i \in 1..Len(outreach) |-> i],
            LAMBDA i : outreach[i].campaignId = campaignId /\ outreach[i].status = "pending")

\* The position, from `from` on, of the next outreach of the list that the
\* loop does not skip; past the list when there is none.
RECURSIVE NextContact(_, _, _)
NextContact(type, pending, from) ==
  IF from > Len(pending) THEN from
  ELSE IF HasContact(type, outreach[pending[from]]) THEN from
  ELSE NextContact(type, pending, from + 1)

\* Where the handler awaits next once it stands at position `at` of its
\* list: sendEmail for an email campaign, outreach.update for a mail
\* campaign; after the list, campaign.update for every type but mail, whose
\* branch responds and returns.
Awaiting(type, pending, at) ==
  IF type \notin {"email", "mail"} THEN "updateCampaign"
  ELSE IF at <= Len(pending) THEN (IF type = "email" THEN "sendEmail" ELSE "updateOutreach")
  ELSE IF type = "email" THEN "updateCampaign"
  ELSE "done"

\* POST /:id/send: Campaign.findOne returns the campaign.
FindCampaign(p) ==
  /\ sender[p].pc \in {"idle", "done"}
  /\ sender' = [sender EXCEPT ![p] =
                  [IdleSender EXCEPT !.pc = "findAll", !.sentCountRead = campaign.sentCount]]
  /\ UNCHANGED <<campaign, outreach, mailbox, generated>>
  /\ UNCHANGED <<aiVars, routeVars, moreVars>>

\* OutreachHistory.findAll returns the pending list: 400 when it is empty,
\* otherwise the handler runs to its next await.
FindPending(p) ==
  /\ sender[p].pc = "findAll"
  /\ LET pending == PendingOf(OwnCampaign)
         at == NextContact(campaign.type, pending, 1)
         next == Awaiting(campaign.type, pending, at)
     IN sender' = [sender EXCEPT ![p] =
                     IF Len(pending) = 0
                       THEN [@ EXCEPT !.pc = "done", !.status = 400]
                       ELSE [@ EXCEPT !.pc = next, !.pending = pending, !.at = at,
                                      !.delivered = (next = "updateOutreach"),
                                      !.status = IF next = "done" THEN 200 ELSE 0]]
  /\ UNCHANGED <<campaign, outreach, mailbox, generated>>
  /\ UNCHANGED <<aiVars, routeVars, moreVars>>

\* mailService.sendEmail settles: the email was transmitted, or the call
\* was rejected.
SendEmail(p, transmitted) ==
  /\ sender[p].pc = "sendEmail"
  /\ LET id == sender[p].pending[sender[p].at]
     IN mailbox' = IF transmitted
                     THEN [mailbox EXCEPT ![id] = Append(@, EmailContent(outreach[id]))]
                     ELSE mailbox
  /\ sender' = [sender EXCEPT ![p].pc = "updateOutreach", ![p].delivered = transmitted]
  /\ UNCHANGED <<campaign, outreach, generated>>
  /\ UNCHANGED <<aiVars, routeVars, moreVars>>

\* outreach.update writes 'sent', or 'failed' from the catch block; the
\* handler then runs to its next await, or responds at the end of the mail
\* branch.
UpdateOutreach(p) ==
  /\ sender[p].pc = "updateOutreach"
  /\ LET me == sender[p]
         id == me.pending[me.at]
         at == NextContact(campaign.type, me.pending, me.at + 1)
         next == Awaiting(campaign.type, me.pending, at)
     IN /\ outreach' = [outreach EXCEPT ![id].status = IF me.delivered THEN "sent" ELSE "failed"]
        /\ sender' = [sender EXCEPT ![p] =
                        [@ EXCEPT !.pc = next, !.at = at,
                                  !.sentCount = IF me.delivered THEN @ + 1 ELSE @,
                                  !.failedCount = IF me.delivered THEN @ ELSE @ + 1,
                                  !.delivered = (next = "updateOutreach"),
                                  !.status = IF next = "done" THEN 200 ELSE 0]]
  /\ UNCHANGED <<campaign, mailbox, generated>>
  /\ UNCHANGED <<aiVars, routeVars, moreVars>>

\* campaign.update({status: 'in_progress', sentCount: campaign.sentCount +
\* sentCount}) on the instance findOne returned, then the response.
UpdateCampaign(p) ==
  /\ sender[p].pc = "updateCampaign"
  /\ campaign' = [campaign EXCEPT !.status = "in_progress",
                                  !.sentCount = sender[p].sentCountRead + sender[p].sentCount]
  /\ sender' = [sender EXCEPT ![p].pc = "done", ![p].status = 200]
  /\ UNCHANGED <<outreach, mailbox, generated>>
  /\ UNCHANGED <<aiVars, routeVars, moreVars>>

\* One administrator generating content and sending, one request at a time.
InitCampaign ==
  /\ config = [fineTunedModel |-> Null]
  /\ NoCallYet
  /\ RoutesIdle
  /\ MoreIdle
  /\ campaign \in {NewCampaign(type) : type \in CampaignTypes}
  /\ outreach = <<>>
  /\ mailbox = <<>>
  /\ generated = <<>>
  /\ sender = [p \in Senders |-> IdleSender]

NextCampaign ==
  \/ \E patientId \in Patients : \E fetched \in BOOLEAN :
       \E ai \in (IF fetched THEN OutreachAnalyses ELSE {Threw}) :
         GenerateContent(patientId, fetched, ai)
  \/ FindCampaign("s1")
  \/ FindPending("s1")
  \/ \E transmitted \in BOOLEAN : SendEmail("s1", transmitted)
  \/ UpdateOutreach("s1")
  \/ UpdateCampaign("s1")

SpecCampaign == InitCampaign /\ [][NextCampaign]_vars

\* What generateOutreachContent returns when both backends answered and the
\* judge's reply was unusable.
BothAnswered ==
  [NoResults EXCEPT
     !.openai = GenResult(LetterBy.openai, DefaultOpenAIModel),
     !.claude = GenResult(LetterBy.claude, ReportedClaudeModel),
     !.selected = DefaultOutcome(GenResult(LetterBy.claude, ReportedClaudeModel))]

\* Rows earlier requests can have left in the table: pending rows of both
\* campaigns, and rows of the own campaign an earlier send has marked sent.
SeedRecords(type) ==
  {OutreachRecord(c, patientId, BothAnswered, "pending") :
     c \in {OwnCampaign, OtherCampaign}, patientId \in Patients}
  \cup {o \in {OutreachRecord(OwnCampaign, patientId, BothAnswered, "sent") :
                 patientId \in Patients} :
          type \in {"email", "mail"} /\ HasContact(type, o)}

\* The sentCount the earlier sends have left on the campaign: the mail
\* branch returns before campaign.update.
SentBefore(type, table) ==
  IF type = "email"
    THEN Cardinality({i \in 1..Len(table) : table[i].status = "sent"})
    ELSE 0

\* Concurrent requests to POST /:id/send over a table earlier requests have
\* filled.
InitSend ==
  /\ config = [fineTunedModel |-> Null]
  /\ NoCallYet
  /\ RoutesIdle
  /\ MoreIdle
  /\ \E type \in CampaignTypes : \E table \in [1..MaxOutreach -> SeedRecords(type)] :
       /\ outreach = table
       /\ campaign = [NewCampaign(type) EXCEPT
                        !.status = IF SentBefore(type, table) > 0 THEN "in_progress" ELSE "draft",
                        !.sentCount = SentBefore(type, table)]
       /\ mailbox = [i \in 1..MaxOutreach |->
                       IF type = "email" /\ table[i].status = "sent"
                         THEN <<EmailContent(table[i])>>
                         ELSE <<>>]
  /\ generated = <<>>
  /\ sender = [p \in Senders |-> IdleSender]

NextSend ==
  \/ \E p \in Senders : FindCampaign(p)
  \/ \E p \in Senders : FindPending(p)
  \/ \E p \in Senders : \E transmitted \in BOOLEAN : SendEmail(p, transmitted)
  \/ \E p \in Senders : UpdateOutreach(p)
  \/ \E p \in Senders : UpdateCampaign(p)

SpecSend == InitSend /\ [][NextSend]_vars

\* POST /:id/target-patients, the campaign found and the caller connected to
\* EPIC: the number of eligible patients with contact information is stored.
TargetPatients(patientsFound) ==
  /\ campaign' = [campaign EXCEPT !.patientCount = patientsFound]
  /\ UNCHANGED <<outreach, mailbox, generated, sender>>
  /\ UNCHANGED <<aiVars, routeVars, moreVars>>

\* POST /:id/pause, the campaign found.
Pause ==
  /\ campaign' = [campaign EXCEPT !.status = "paused"]
  /\ UNCHANGED <<outreach, mailbox, generated, sender>>
  /\ UNCHANGED <<aiVars, routeVars, moreVars>>

\* POST /:id/complete, the campaign found.
Complete ==
  /\ campaign' = [campaign EXCEPT !.status = "completed"]
  /\ UNCHANGED <<outreach, mailbox, generated, sender>>
  /\ UNCHANGED <<aiVars, routeVars, moreVars>>

\* The campaign routes that write, called by one administrator.
NextLifecycle ==
  \/ \E patientId \in Patients : \E fetched \in BOOLEAN :
       \E ai \in (IF fetched THEN OutreachAnalyses ELSE {Threw}) :
         GenerateContent(patientId, fetched, ai)
  \/ \E patientsFound \in 0..Cardinality(Patients) : TargetPatients(patientsFound)
  \/ Pause
  \/ Complete
  \/ FindCampaign("s1")
  \/ FindPending("s1")
  \/ \E transmitted \in BOOLEAN : SendEmail("s1", transmitted)
  \/ UpdateOutreach("s1")
  \/ UpdateCampaign("s1")

SpecLifecycle == InitCampaign /\ [][NextLifecycle]_vars

\* ------------------------------------------- row-level routes and tenancy
\* The frame of a request to a row-level route.
OnlyRows == UNCHANGED <<aiVars, routeVars, campVars, tokenVars, pageVars, batchVars>>

\* Model.findOne({where: {id, organizationId}}) on one table.
OwnRow(kind, id, organizationId) ==
  rows[id].kind = kind /\ rows[id].organizationId = organizationId

\* CarePlan.findOne({where: {id, [Op.or]: [{organizationId}, {isTemplate: true}]}}).
OwnOrTemplate(id, organizationId) ==
  /\ rows[id].kind = "care_plan"
  /\ rows[id].organizationId = organizationId \/ rows[id].isTemplate

\* The where clause of the user routes: the organization filter is added
\* unless the caller is super_admin.
UserInScope(id, caller) ==
  /\ rows[id].kind = "user"
  /\ caller.role = "super_admin" \/ rows[id].organizationId = caller.organizationId

\* instance.update(body): the columns the body names are written.
Updated(row, body) ==
  [row EXCEPT !.organizationId = IF body.organizationId = Undefined THEN @
                                 ELSE body.organizationId]

\* Request bodies: the organizationId and role columns a caller can name
\* beside the documented ones.
Bodies ==
  [organizationId : {Undefined} \cup Organizations,
   role : {Undefined, "super_admin"}]

\* The callers of the row-level routes: active users of OwnOrganization,
\* connected to EPIC.
Tenants == {Caller(role, TRUE) : role \in Roles}

Answer(by, route, read, changed, status) ==
  access' = Access(by, route, read, changed, status)

\* GET /campaigns
ListCampaigns(caller) ==
  /\ Answer(caller, "GET /campaigns",
            {id \in RowIds : OwnRow("campaign", id, caller.organizationId)}, {}, 200)
  /\ UNCHANGED rows
  /\ OnlyRows

\* GET /campaigns/:id
GetCampaign(caller, id) ==
  /\ IF OwnRow("campaign", id, caller.organizationId)
       THEN Answer(caller, "GET /campaigns/:id", {id}, {}, 200)
       ELSE Answer(caller, "GET /campaigns/:id", {}, {}, 404)
  /\ UNCHANGED rows
  /\ OnlyRows

\* POST /campaigns: the care plan is looked up, then Campaign.create writes
\* the body's columns with organizationId set to the caller's.
CreateCampaign(caller, carePlanId, body) ==
  /\ rows["campaign-new"] = AbsentRow
  /\ IF caller.role \notin AdminRoles
       THEN Answer(caller, "POST /campaigns", {}, {}, 403) /\ UNCHANGED rows
     ELSE IF ~OwnOrTemplate(carePlanId, caller.organizationId)
       THEN Answer(caller, "POST /campaigns", {}, {}, 400) /\ UNCHANGED rows
     ELSE /\ rows' = [rows EXCEPT !["campaign-new"] =
                        Row("campaign", caller.organizationId, FALSE)]
          /\ Answer(caller, "POST /campaigns", {carePlanId}, {"campaign-new"}, 201)
  /\ OnlyRows

\* POST /campaigns/:id/pause
PauseCampaign(caller, id) ==
  /\ IF caller.role \notin AdminRoles
       THEN Answer(caller, "POST /campaigns/:id/pause", {}, {}, 403)
     ELSE IF ~OwnRow("campaign", id, caller.organizationId)
       THEN Answer(caller, "POST /campaigns/:id/pause", {}, {}, 404)
     ELSE Answer(caller, "POST /campaigns/:id/pause", {id}, {id}, 200)
  /\ UNCHANGED rows
  /\ OnlyRows

\* GET /care-plans/:id
GetCarePlan(caller, id) ==
  /\ IF OwnOrTemplate(id, caller.organizationId)
       THEN Answer(caller, "GET /care-plans/:id", {id}, {}, 200)
       ELSE Answer(caller, "GET /care-plans/:id", {}, {}, 404)
  /\ UNCHANGED rows
  /\ OnlyRows

\* PUT /care-plans/:id: carePlan.update(req.body).
UpdateCarePlan(caller, id, body) ==
  /\ IF caller.role \notin AdminRoles
       THEN Answer(caller, "PUT /care-plans/:id", {}, {}, 403) /\ UNCHANGED rows
     ELSE IF ~OwnRow("care_plan", id, caller.organizationId)
       THEN Answer(caller, "PUT /care-plans/:id", {}, {}, 404) /\ UNCHANGED rows
     ELSE /\ rows' = [rows EXCEPT ![id] = Updated(@, body)]
          /\ Answer(caller, "PUT /care-plans/:id", {id}, {id}, 200)
  /\ OnlyRows

\* POST /patients/bulk-analyze with a carePlanId: CarePlan.findByPk.
BulkAnalyze(caller, carePlanId) ==
  /\ IF rows[carePlanId].kind = "care_plan"
       THEN Answer(caller, "POST /patients/bulk-analyze", {carePlanId}, {}, 200)
       ELSE Answer(caller, "POST /patients/bulk-analyze", {}, {}, 200)
  /\ UNCHANGED rows
  /\ OnlyRows

\* GET /admin/users
ListUsers(caller) ==
  /\ IF caller.role \notin AdminRoles
       THEN Answer(caller, "GET /admin/users", {}, {}, 403)
       ELSE Answer(caller, "GET /admin/users",
                   {id \in RowIds : UserInScope(id, caller)}, {}, 200)
  /\ UNCHANGED rows
  /\ OnlyRows

\* PUT /admin/users/:id: the body without password and email is written.
UpdateUser(caller, id, body) ==
  /\ IF caller.role \notin AdminRoles
       THEN Answer(caller, "PUT /admin/users/:id", {}, {}, 403) /\ UNCHANGED rows
     ELSE IF ~UserInScope(id, caller)
       THEN Answer(caller, "PUT /admin/users/:id", {}, {}, 404) /\ UNCHANGED rows
     ELSE IF body.role = "super_admin" /\ caller.role # "super_admin"
       THEN Answer(caller, "PUT /admin/users/:id", {id}, {}, 403) /\ UNCHANGED rows
     ELSE /\ rows' = [rows EXCEPT ![id] = Updated(@, body)]
          /\ Answer(caller, "PUT /admin/users/:id", {id}, {id}, 200)
  /\ OnlyRows

\* DELETE /admin/users/:id
DeactivateUser(caller, id) ==
  /\ IF caller.role \notin AdminRoles
       THEN Answer(caller, "DELETE /admin/users/:id", {}, {}, 403)
     ELSE IF ~UserInScope(id, caller)
       THEN Answer(caller, "DELETE /admin/users/:id", {}, {}, 404)
     ELSE Answer(caller, "DELETE /admin/users/:id", {id}, {id}, 200)
  /\ UNCHANGED rows
  /\ OnlyRows

NextTenancy ==
  \/ \E caller \in Tenants : ListCampaigns(caller)
  \/ \E caller \in Tenants : \E id \in RowIds : GetCampaign(caller, id)
  \/ \E caller \in Tenants : \E id \in RowIds : \E body \in Bodies :
       CreateCampaign(caller, id, body)
  \/ \E caller \in Tenants : \E id \in RowIds : PauseCampaign(caller, id)
  \/ \E caller \in Tenants : \E id \in RowIds : GetCarePlan(caller, id)
  \/ \E caller \in Tenants : \E id \in RowIds : \E body \in Bodies :
       UpdateCarePlan(caller, id, body)
  \/ \E caller \in Tenants : \E id \in RowIds : BulkAnalyze(caller, id)
  \/ \E caller \in Tenants : ListUsers(caller)
  \/ \E caller \in Tenants : \E id \in RowIds : \E body \in Bodies :
       UpdateUser(caller, id, body)
  \/ \E caller \in Tenants : \E id \in RowIds : DeactivateUser(caller, id)

SpecTenancy == Init /\ [][NextTenancy]_vars

\* ---------------------------------------------- EPIC tokens and FHIR calls
OnlyTokens == UNCHANGED <<aiVars, routeVars, campVars, orgVars, pageVars, batchVars>>

\* user.epicTokenExpiry && new Date(user.epicTokenExpiry) < new Date()
Expired(user) == user.epicTokenExpiry # NoDate /\ user.epicTokenExpiry[1] < now

\* The responses the token endpoint can give to its next request.
TokenResponses ==
  {TokenResponse("access-" \o ToString(issued + 1), refresh, expiresIn) :
     refresh \in {Undefined, "refresh-" \o ToString(issued + 1)}, expiresIn \in 1..2}

\* user.update of requireEpicConnection: refresh_token || user.epicRefreshToken.
StoredAfter(user, tokens) ==
  EpicColumns(tokens.access_token,
              IF tokens.refresh_token = Undefined THEN user.epicRefreshToken
              ELSE tokens.refresh_token,
              DateAt(now + tokens.expires_in))

\* The handler's FHIR request, made with the token given to setAccessToken
\* while the User row holds user.
CallFhir(route, token, user) ==
  fhir' = FhirRequest(route, token, token = user.epicAccessToken /\ Expired(user))

\* Time passes.
Tick ==
  /\ now < MaxTime
  /\ now' = now + 1
  /\ UNCHANGED <<epicUser, issued, fhir, epicStatus>>
  /\ OnlyTokens

\* POST /auth/epic/callback: the tokens of the code exchange are stored; an
\* absent refresh_token is stored as NULL.
EpicCallback(tokens) ==
  /\ issued < MaxIssued
  /\ issued' = issued + 1
  /\ epicUser' = EpicColumns(tokens.access_token,
                             IF tokens.refresh_token = Undefined THEN Null
                             ELSE tokens.refresh_token,
                             DateAt(now + tokens.expires_in))
  /\ fhir' = NoFhirRequest
  /\ epicStatus' = 200
  /\ UNCHANGED now
  /\ OnlyTokens

\* POST /auth/epic/disconnect
EpicDisconnect ==
  /\ epicUser' = Disconnected
  /\ fhir' = NoFhirRequest
  /\ epicStatus' = 200
  /\ UNCHANGED <<now, issued>>
  /\ OnlyTokens

\* A route behind requireEpicConnection, whose handler calls the FHIR server
\* with req.epicAccessToken. refreshed is FALSE when the token endpoint
\* rejects the refresh.
ViaRequireEpicConnection(route, refreshed, tokens) ==
  /\ refreshed => issued < MaxIssued
  /\ IF epicUser.epicAccessToken = Null
       THEN /\ epicStatus' = 400
            /\ fhir' = NoFhirRequest
            /\ UNCHANGED <<epicUser, issued>>
     ELSE IF ~Expired(epicUser)
       THEN /\ epicStatus' = 200
            /\ UNCHANGED <<epicUser, issued>>
            /\ CallFhir(route, epicUser.epicAccessToken, epicUser)
     ELSE IF epicUser.epicRefreshToken = Null \/ ~refreshed
       THEN /\ epicStatus' = 401
            /\ fhir' = NoFhirRequest
            /\ UNCHANGED <<epicUser, issued>>
     ELSE /\ issued' = issued + 1
          /\ epicUser' = StoredAfter(epicUser, tokens)
          /\ epicStatus' = 200
          /\ CallFhir(route, tokens.access_token, StoredAfter(epicUser, tokens))
  /\ UNCHANGED now
  /\ OnlyTokens

\* A route behind getEpicService, or a handler making the same test itself
\* (target-patients, generate-content): only the presence of the access
\* token is tested.
ViaGetEpicService(route) ==
  /\ IF epicUser.epicAccessToken = Null
       THEN /\ epicStatus' = 400
            /\ fhir' = NoFhirRequest
     ELSE /\ epicStatus' = 200
          /\ CallFhir(route, epicUser.epicAccessToken, epicUser)
  /\ UNCHANGED <<epicUser, now, issued>>
  /\ OnlyTokens

\* Routes that reach the FHIR server.
GuardedRoutes == {"epic GET /patients"}
PresenceRoutes == {"patients GET /", "campaigns POST /:id/target-patients"}

NextTokens ==
  \/ Tick
  \/ \E tokens \in TokenResponses : EpicCallback(tokens)
  \/ EpicDisconnect
  \/ \E route \in GuardedRoutes : \E refreshed \in BOOLEAN : \E tokens \in TokenResponses :
       ViaRequireEpicConnection(route, refreshed, tokens)
  \/ \E route \in PresenceRoutes : ViaGetEpicService(route)

SpecTokens == Init /\ [][NextTokens]_vars

\* ------------------------------------------------------------ getAllPages
OnlyPages == UNCHANGED <<aiVars, routeVars, campVars, orgVars, tokenVars, batchVars>>

\* bundle.link?.find(l => l.relation === 'next'): the position of the first
\* link with relation next, 0 when find returns undefined.
RECURSIVE FindNext(_, _)
FindNext(link, from) ==
  IF from > Len(link) THEN 0
  ELSE IF link[from].relation = "next" THEN from
  ELSE FindNext(link, from + 1)

\* Mutant: the first link is taken, whatever its relation.
GetNextPageUrlFirstLink(bundle) ==
  IF "link" \notin DOMAIN bundle THEN Null ELSE bundle.link[1].url

\* getNextPageUrl: nextLink?.url || null
GetNextPageUrl(bundle) ==
  IF "link" \notin DOMAIN bundle THEN Null
  ELSE IF FindNext(bundle.link, 1) = 0 THEN Null
  ELSE bundle.link[FindNext(bundle.link, 1)].url

\* bundle.entry || []
EntriesOf(bundle) == IF "entry" \in DOMAIN bundle THEN bundle.entry ELSE <<>>

\* getAllPages(initialBundle), up to the while test.
StartPaging(initialBundle) ==
  /\ pagePc = "idle"
  /\ allEntries' = EntriesOf(initialBundle)
  /\ nextUrl' = GetNextPageUrl(initialBundle)
  /\ pages' = <<initialBundle>>
  /\ pagePc' = "loop"
  /\ UNCHANGED <<requested, failed, overflow>>
  /\ OnlyPages

\* while (nextUrl): axios.get(nextUrl) is issued.
RequestPage ==
  /\ pagePc = "loop"
  /\ nextUrl # Null
  /\ pagePc' = "awaiting"
  /\ IF Len(requested) < MaxPages
       THEN requested' = Append(requested, nextUrl) /\ UNCHANGED overflow
       ELSE overflow' = TRUE /\ UNCHANGED requested
  /\ UNCHANGED <<allEntries, nextUrl, pages, failed>>
  /\ OnlyPages

\* The request is answered with a bundle: its entries are pushed and its next
\* link read. The server's bundles fit into MaxEntries entries in all.
PageAnswered(bundle) ==
  /\ pagePc = "awaiting"
  /\ Len(allEntries) + Len(EntriesOf(bundle)) <= MaxEntries
  /\ allEntries' = allEntries \o EntriesOf(bundle)
  /\ nextUrl' = GetNextPageUrl(bundle)
  /\ pages' = IF overflow THEN pages ELSE Append(pages, bundle)
  /\ pagePc' = "loop"
  /\ UNCHANGED <<requested, failed, overflow>>
  /\ OnlyPages

\* The request is rejected: catch, log, break, return allEntries.
PageFailed ==
  /\ pagePc = "awaiting"
  /\ failed' = TRUE
  /\ pagePc' = "done"
  /\ UNCHANGED <<allEntries, nextUrl, requested, pages, overflow>>
  /\ OnlyPages

\* The while test finds nextUrl null: return allEntries.
ReturnEntries ==
  /\ pagePc = "loop"
  /\ nextUrl = Null
  /\ pagePc' = "done"
  /\ UNCHANGED <<allEntries, nextUrl, requested, pages, failed, overflow>>
  /\ OnlyPages

NextPages ==
  \/ \E initialBundle \in Bundles : StartPaging(initialBundle)
  \/ RequestPage
  \/ \E bundle \in Bundles : PageAnswered(bundle)
  \/ PageFailed
  \/ ReturnEntries

SpecPages == Init /\ [][NextPages]_vars

\* getAllPages takes its steps, and every page request is answered.
FairPages ==
  /\ SpecPages
  /\ WF_vars(RequestPage)
  /\ WF_vars(ReturnEntries)
  /\ WF_vars((\E bundle \in Bundles : PageAnswered(bundle)) \/ PageFailed)
  /\ WF_vars(\E initialBundle \in Bundles : StartPaging(initialBundle))

\* ------------------------------------------------------------ batchProcess
OnlyBatch == UNCHANGED <<aiVars, routeVars, campVars, orgVars, tokenVars, pageVars>>

\* options.batchSize || 5
BatchSizeOf(batchOptions) ==
  IF "batchSize" \in DOMAIN batchOptions /\ batchOptions.batchSize # 0
    THEN batchOptions.batchSize
    ELSE DefaultBatchSize

\* The positions of prompts.slice(i, i + size) in an array of n prompts.
Slice(i, size, n) == {k \in 1..n : i < k /\ k <= i + size}

\* Mutant: the delay is awaited after every group.
DelayNeededAfterEveryGroup(i, size, n) == i < n

\* if (i + batchSize < prompts.length)
DelayNeeded(i, size, n) == i + size < n

\* batch.map(prompt => this.getDualAnalysis(...)): the calls of the group
\* are started, one after the other without an await between them.
StartedGroup(states, i, size) ==
  [k \in DOMAIN states |-> IF k \in Slice(i, size, Len(states)) THEN "running" ELSE states[k]]

\* batchProcess(prompts, systemPrompt, options) up to its first await.
BatchProcess(n, batchOptions) ==
  /\ batchPc = "idle"
  /\ promptCount' = n
  /\ batchSize' = BatchSizeOf(batchOptions)
  /\ batchI' = 0
  /\ callState' = StartedGroup([k \in 1..n |-> "unstarted"], 0, BatchSizeOf(batchOptions))
  /\ batchPc' = IF n = 0 THEN "done" ELSE "awaiting"
  /\ UNCHANGED <<resultsLen, timersSet, timersFired>>
  /\ OnlyBatch

\* A getDualAnalysis call returns its results, or is rejected.
CallSettles(k, outcome) ==
  /\ k \in DOMAIN callState
  /\ callState[k] = "running"
  /\ callState' = [callState EXCEPT ![k] = outcome]
  /\ UNCHANGED <<batchPc, promptCount, batchSize, batchI, resultsLen, timersSet, timersFired>>
  /\ OnlyBatch

\* Promise.all is rejected with the first rejection among its calls, and
\* batchProcess with it.
GroupRejected ==
  /\ batchPc = "awaiting"
  /\ \E k \in Slice(batchI, batchSize, promptCount) : callState[k] = "threw"
  /\ batchPc' = "failed"
  /\ UNCHANGED <<promptCount, batchSize, batchI, callState, resultsLen, timersSet, timersFired>>
  /\ OnlyBatch

\* Promise.all is fulfilled: the results are pushed; then the timer is set,
\* or the loop ends and results is returned.
GroupFulfilled ==
  /\ batchPc = "awaiting"
  /\ \A k \in Slice(batchI, batchSize, promptCount) : callState[k] = "returned"
  /\ resultsLen' = resultsLen + Cardinality(Slice(batchI, batchSize, promptCount))
  /\ IF DelayNeeded(batchI, batchSize, promptCount)
       THEN /\ timersSet' = timersSet + 1
            /\ batchPc' = "delay"
            /\ UNCHANGED batchI
       ELSE /\ batchI' = batchI + batchSize
            /\ batchPc' = IF batchI + batchSize < promptCount THEN "awaiting" ELSE "done"
            /\ UNCHANGED timersSet
  /\ callState' = IF DelayNeeded(batchI, batchSize, promptCount) THEN callState
                  ELSE StartedGroup(callState, batchI + batchSize, batchSize)
  /\ UNCHANGED <<promptCount, batchSize, timersFired>>
  /\ OnlyBatch

\* The timer fires: i += batchSize, the loop test, and the next group.
TimerFires ==
  /\ batchPc = "delay"
  /\ timersFired' = timersFired + 1
  /\ batchI' = batchI + batchSize
  /\ callState' = StartedGroup(callState, batchI + batchSize, batchSize)
  /\ batchPc' = IF batchI + batchSize < promptCount THEN "awaiting" ELSE "done"
  /\ UNCHANGED <<promptCount, batchSize, resultsLen, timersSet>>
  /\ OnlyBatch

NextBatch ==
  \/ \E n \in 0..MaxPrompts : \E batchOptions \in BatchOptions : BatchProcess(n, batchOptions)
  \/ \E k \in 1..MaxPrompts : \E outcome \in {"returned", "threw"} : CallSettles(k, outcome)
  \/ GroupRejected
  \/ GroupFulfilled
  \/ TimerFires

SpecBatch == Init /\ [][NextBatch]_vars

\* ------------------------------------------------------------------ claims
Returned == pc = "returned"
Other(b) == CHOOSE y \in Backends : y # b
PromiseOf(b) == genPromise[Position[b]]
JudgeRequests == Len(SelectSeq(requests, LAMBDA q : q.purpose = "judge"))

\* C1: when the generation call of one backend X is rejected and that of the
\* other backend Y is fulfilled, the returned result holds Y's
\* GenerationResult in Y's slot, null in X's slot, and an errors map whose
\* only entry is X's, holding the message of X's rejection.
C1_PartialFailure ==
  \A x \in Backends :
    LET y == Other(x)
    IN (Returned /\ PromiseOf(x).status = "rejected" /\ PromiseOf(y).status = "fulfilled")
         => /\ results[y] = PromiseOf(y).value
            /\ results[y].kind = "object"
            /\ results[x] = NullResult
            /\ DOMAIN results.errors = {x}
            /\ results.errors[x] = PromiseOf(x).reason.message

C1_Witness ==
  /\ Returned
  /\ options.selectBest
  /\ PromiseOf("openai").status = "rejected"
  /\ PromiseOf("openai").reason = ErrorObj("Request timed out")
  /\ PromiseOf("claude").status = "fulfilled"
  /\ results.claude.content \in Texts

\* C2: when both generation calls are rejected, getDualAnalysis returns
\* normally (it is not rejected and asks no judge): both slots are null, the
\* errors map has exactly the two entries openai and claude, and no
\* SelectionOutcome is attached.
C2_BothFail ==
  (pc # "awaitAll" /\ \A b \in Backends : PromiseOf(b).status = "rejected")
    => /\ Returned
       /\ results.openai = NullResult
       /\ results.claude = NullResult
       /\ DOMAIN results.errors = {"openai", "claude"}
       /\ results.selected = NoOutcome
       /\ JudgeRequests = 0

C2_Witness ==
  /\ Returned
  /\ options.selectBest
  /\ \A b \in Backends : PromiseOf(b).status = "rejected"
  /\ DOMAIN results.errors = Backends

\* C3: the returned result carries a SelectionOutcome exactly when selectBest
\* was requested and both backends produced a result; otherwise none is
\* attached and no judge request was issued.
C3_SelectionIff ==
  /\ Returned =>
       LET both == options.selectBest /\ \A b \in Backends : PromiseOf(b).status = "fulfilled"
       IN /\ (results.selected.kind = "object") <=> both
          /\ ~both => (results.selected = NoOutcome /\ JudgeRequests = 0)
  /\ JudgeRequests > 0 =>
       (options.selectBest /\ \A b \in Backends : PromiseOf(b).status = "fulfilled")

C3_Witness ==
  /\ Returned
  /\ options.selectBest
  /\ PromiseOf("openai").status = "fulfilled"
  /\ PromiseOf("claude").status = "rejected"
  /\ results.selected = NoOutcome
  /\ JudgeRequests = 0

\* C4: whenever the judge call is rejected or JSON.parse of its reply
\* raises, the attached outcome is the fixed default: winner claude, content
\* claude's generated text, rationale exactly the default sentence, no
\* sub-scores; and all default outcomes returned so far for the same pair
\* of generated texts, whatever the failure was, are one and the same.
C4_FallbackOutcome ==
  /\ (Returned /\ (judgePromise.status = "rejected"
                   \/ (judgePromise.status = "fulfilled"
                       /\ judgePromise.value.content \in {ReplyFenced, ReplyProse})))
       => /\ results.selected.kind = "object"
          /\ results.selected.winner = "claude"
          /\ results.selected.content = PromiseOf("claude").value.content
          /\ results.selected.reasoning = "Default selection due to evaluation error"
          /\ results.selected.scores = Undefined
  /\ \A k \in DOMAIN fallbackSeen :
       Cardinality({e.outcome : e \in fallbackSeen[k]}) <= 1

\* A second call meets a different judge failure for the same two texts.
C4_Witness ==
  /\ Returned
  /\ calls = MaxCalls
  /\ judgePromise.status = "fulfilled"
  /\ judgePromise.value.content = ReplyProse
  /\ results.openai.content # results.claude.content
  /\ Cardinality(fallbackSeen[<<results.openai.content, results.claude.content>>]) > 1

\* C5: when the judge's reply parses and selects label A or B, the outcome
\* names the backend behind the label (A = openai, B = claude), carries that
\* backend's generated text verbatim, and the reply's rationale and
\* sub-scores unchanged.
C5_JudgedOutcome ==
  /\ (Returned /\ judgePromise.status = "fulfilled"
        /\ judgePromise.value.content = ReplySelectsA)
       => results.selected =
            Outcome("openai", PromiseOf("openai").value.content, "clearer", ScoresAB)
  /\ (Returned /\ judgePromise.status = "fulfilled"
        /\ judgePromise.value.content = ReplySelectsB)
       => results.selected =
            Outcome("claude", PromiseOf("claude").value.content, "more complete", ScoresBA)

C5_Witness ==
  /\ Returned
  /\ judgePromise.status = "fulfilled"
  /\ judgePromise.value.content = ReplySelectsA
  /\ results.selected.winner = "openai"
  /\ results.openai.content # results.claude.content

\* C6: getDualAnalysis is never rejected towards its caller, whatever the
\* outcomes of the generation calls and of the judge call; once nothing is
\* awaited any more, a result structure has been returned.
C6_NeverRejects ==
  /\ pc # "rejected"
  /\ pc \in {"idle", "awaitAll", "awaitJudge", "returned"}
  /\ (calls > 0 /\ pc \notin {"awaitAll", "awaitJudge"}) => Returned

\* The SDK rejected a generation call with null.
C6_Witness ==
  /\ Returned
  /\ "openai" \in DOMAIN results.errors
  /\ results.errors.openai = TypeErrorOfNull.message

Settled(b) == PromiseOf(b).status \in {"fulfilled", "rejected"}
GenerationIssued(b) ==
  /\ PromiseOf(b).status # "none"
  /\ \E n \in DOMAIN requests : requests[n] = GenerationRequest(b, options, OpenAIModel(config))
ResultsBuilt == pc \in {"awaitJudge", "returned", "rejected"}

\* C7: both generation requests are issued before the outcome of either is
\* known; the result is built and the judge asked only after both have
\* settled; while one call is still pending, the other's failure neither
\* ends getDualAnalysis nor takes the pending call away, and what the
\* pending call later yields is in the returned result.
C7_AllSettledJoin ==
  /\ (\E b \in Backends : Settled(b)) => \A b \in Backends : GenerationIssued(b)
  /\ (ResultsBuilt \/ JudgeRequests > 0) => \A b \in Backends : Settled(b)
  /\ \A b \in Backends :
       (PromiseOf(b).status = "pending" /\ PromiseOf(Other(b)).status = "rejected")
         => (pc = "awaitAll" /\ results = NoResults /\ GenerationIssued(b))
  /\ \A b \in Backends :
       (Returned /\ settleOrder = <<Position[Other(b)], Position[b]>>
          /\ PromiseOf(Other(b)).status = "rejected" /\ PromiseOf(b).status = "fulfilled")
         => results[b] = PromiseOf(b).value

\* The quicker backend failed first; the slower one then succeeded.
C7_Witness ==
  /\ Returned
  /\ settleOrder = <<Position["claude"], Position["openai"]>>
  /\ PromiseOf("claude").status = "rejected"
  /\ PromiseOf("openai").status = "fulfilled"
  /\ results.openai.kind = "object"

\* What a settled generation call contributes to the result, by backend.
ExpectedSlot(b) ==
  IF PromiseOf(b).status = "fulfilled"
    THEN [kind |-> "object", content |-> PromiseOf(b).value.content,
          model |-> PromiseOf(b).value.model]
    ELSE NullResult

\* C8: the returned result is fixed by the outcomes of the two generation
\* calls, not by which settled first: each slot holds the outcome of its
\* own backend and each error entry the message of its own backend's
\* rejection, for both orders of completion.
C8_KeyedByBackend ==
  Returned =>
    /\ settleOrder \in {<<1, 2>>, <<2, 1>>}
    /\ \A b \in Backends :
         /\ results[b] = ExpectedSlot(b)
         /\ (b \in DOMAIN results.errors) <=> (PromiseOf(b).status = "rejected")
         /\ (b \in DOMAIN results.errors) => results.errors[b] = PromiseOf(b).reason.message

\* Claude settled first with a text, OpenAI second with a failure.
C8_Witness ==
  /\ Returned
  /\ settleOrder = <<Position["claude"], Position["openai"]>>
  /\ PromiseOf("claude").status = "fulfilled"
  /\ PromiseOf("openai").status = "rejected"
  /\ results.claude.kind = "object"
  /\ DOMAIN results.errors = {"openai"}

\* C9: in every returned result that has a SelectionOutcome, the backend
\* named as winner has a non-null GenerationResult in that result and the
\* outcome's content is that backend's generated text, on the judged path
\* and on the default path.
C9_WinnerHasResult ==
  (Returned /\ results.selected.kind = "object")
    => /\ results.selected.winner \in Backends
       /\ results[results.selected.winner].kind = "object"
       /\ results.selected.content = results[results.selected.winner].content
       /\ results.selected.content = PromiseOf(results.selected.winner).value.content

\* The default path, with two different generated texts.
C9_Witness ==
  /\ Returned
  /\ results.selected.kind = "object"
  /\ judgePromise.status = "rejected"
  /\ results.selected.winner = "claude"
  /\ results.openai.content # results.claude.content

\* C10: in every returned result, each backend has either a non-null slot
\* and no entry in the errors map, or a null slot and an entry in it.
C10_SlotXorError ==
  Returned =>
    \A b \in Backends :
      \/ (results[b].kind = "object" /\ b \notin DOMAIN results.errors)
      \/ (results[b] = NullResult /\ b \in DOMAIN results.errors)

C10_Witness ==
  /\ Returned
  /\ results.openai.kind = "object"
  /\ "openai" \notin DOMAIN results.errors
  /\ results.claude = NullResult
  /\ "claude" \in DOMAIN results.errors

RequestsTo(b, purpose) ==
  Len(SelectSeq(requests, LAMBDA q : q.to = b /\ q.purpose = purpose))
JudgeInvoked == judgePromise.status # "none"

\* C11: one call issues exactly one generation request to each backend,
\* exactly one judge request when the judge is invoked and none otherwise,
\* and nothing else, also after failures; it changes neither the service's
\* configuration nor the caller's options.
C11_OnlyRequests ==
  /\ [](pc # "idle" =>
          /\ \A b \in Backends : RequestsTo(b, "generate") = 1
          /\ RequestsTo("openai", "judge") = (IF JudgeInvoked THEN 1 ELSE 0)
          /\ RequestsTo("claude", "judge") = 0
          /\ Len(requests) = Cardinality(Backends) + (IF JudgeInvoked THEN 1 ELSE 0)
          /\ JudgeInvoked <=> (pc = "awaitJudge" \/ (Returned /\ results.selected.kind = "object")))
  /\ [][config' = config /\ (pc # "idle" => options' = options)]_vars

\* Both generation calls and the judge call failed; nothing was repeated.
C11_Witness ==
  /\ Returned
  /\ config.fineTunedModel = FineTunedModelName
  /\ options.temperature = "2"
  /\ judgePromise.status = "rejected"
  /\ Len(requests) = Cardinality(Backends) + 1

\* C12: when every issued request eventually settles, the call eventually
\* returns; while it waits, it waits for a generation call or for the judge
\* call that has not settled, and for nothing else.
C12_EventuallyReturns ==
  /\ (pc \in {"awaitAll", "awaitJudge"}) ~> Returned
  /\ [](pc = "awaitAll" => ((\E b \in Backends : PromiseOf(b).status = "pending") \/ ENABLED Join))
  /\ [](pc = "awaitJudge" => judgePromise.status = "pending")

C12_Witness ==
  /\ Returned
  /\ PromiseOf("openai").status = "rejected"
  /\ PromiseOf("claude").status = "rejected"
  /\ options.selectBest

\* The temperature and the max output length the caller asked for, with the
\* documented defaults when none was passed.
WantedTemperature == IF options.temperature = Undefined THEN "0.7" ELSE options.temperature
WantedMaxTokens == IF options.maxTokens = Undefined THEN "2000" ELSE options.maxTokens

\* C13: every generation request, to either backend, carries the caller's
\* temperature (0 included) and max output length, or 0.7 and 2000 when the
\* caller passed none.
C13_RequestParameters ==
  \A n \in DOMAIN requests :
    requests[n].purpose = "generate"
      => /\ requests[n].temperature = WantedTemperature
         /\ requests[n].max_tokens = WantedMaxTokens

\* C14: the judge request carries temperature 0.3, whatever temperature the
\* caller gave.
C14_JudgeTemperature ==
  /\ \A n \in DOMAIN requests :
       requests[n].purpose = "judge" => requests[n].temperature = "0.3"
  /\ JudgeInvoked => \E n \in DOMAIN requests : requests[n].purpose = "judge"

C14_Witness ==
  /\ pc = "awaitJudge"
  /\ options.temperature = "2"
  /\ \E n \in DOMAIN requests :
       requests[n].purpose = "judge" /\ requests[n].temperature = "0.3"

\* A response has been sent for the request.
Responded == reqStep = 0 /\ resStatus # 0

\* C15: every successful request that returns EPIC patient data has caused
\* an audit-log row naming the requesting user, the organization and the
\* action.
C15_PatientDataAudited ==
  (Responded /\ reqRoute.epic /\ resStatus < 400) =>
    \E a \in audited :
      /\ a.userId = reqUser.id
      /\ a.organizationId = reqUser.organizationId
      /\ a.action # NoAudit

\* The roles the access rule names.
ClaimedRoles == {"org_admin", "super_admin"}

\* The tables the access rule is about.
ManagedTables == {"campaign", "care_plan", "user", "organization"}

\* The request is one that creates or changes a managed record.
ChangesManaged ==
  reqRoute.writes \cap ManagedTables # {} \/ written \cap ManagedTables # {}

\* C16 as stated: every request that creates or changes a campaign, a care
\* plan, a user or organization settings is carried out only for an
\* org_admin or super_admin caller; for any other role it is answered 403
\* and nothing is created or changed.
C16_AdminOnlyChanges ==
  (ChangesManaged /\ reqUser.role \notin ClaimedRoles) =>
    /\ written = {}
    /\ (Responded /\ reqUser # Anonymous) => resStatus = 403

\* The campaign, care-plan and admin routes that create or change a record.
ManagementRoutes ==
  {r \in CampaignRoutes \cup CarePlanRoutes \cup AdminRoutes : r.writes \cap ManagedTables # {}}

\* C16 amended: on the campaign, care-plan and admin routes that create or
\* change a record, a record is written only for an org_admin or super_admin
\* caller (super_admin where the route runs superAdminOnly); a caller with
\* any other role is answered 403 and nothing is written. The routes on
\* which callers change their own user record are outside this rule.
C16_ManagementRoutesAdminOnly ==
  reqRoute \in ManagementRoutes =>
    /\ written # {} => reqUser.role \in ClaimedRoles
    /\ (written # {} /\ \E i \in 1..Len(reqRoute.chain) : reqRoute.chain[i] = "superAdminOnly")
         => reqUser.role = "super_admin"
    /\ (Responded /\ reqUser # Anonymous /\ reqUser.role \notin ClaimedRoles)
         => resStatus = 403 /\ written = {}

C16_Witness ==
  /\ Responded
  /\ reqRoute \in ManagementRoutes
  /\ reqUser.role = "analyst"
  /\ resStatus = 403
  /\ written = {}

\* Neither backend's text is stored in the outreach row.
Contentless(o) == o.contentOpenAI = Null /\ o.contentClaude = Null

\* C17: when both backends fail for a patient during generate-content the
\* patient is a complete failure: the response holds an error entry for the
\* patient, no outreach row is created, and so no email without content is
\* ever transmitted.
C17_BothFailNoOutreach ==
  /\ \A k \in 1..Len(generated) :
       (generated[k].openai = Undefined /\ generated[k].claude = Undefined)
         => generated[k].error
  /\ \A i \in 1..Len(outreach) : ~Contentless(outreach[i])
  /\ \A i \in 1..Len(outreach) : \A k \in 1..Len(mailbox[i]) :
       Contentless(outreach[i]) => mailbox[i][k] # Null

\* The one backend whose text the outreach row stores, when exactly one did.
OnlyContent(o) == IF o.contentOpenAI # Null THEN o.contentOpenAI ELSE o.contentClaude

\* C18: when exactly one backend produced content for a patient, every email
\* the send step transmits for that outreach carries that backend's content.
C18_SingleBackendContent ==
  \A i \in 1..Len(outreach) : \A k \in 1..Len(mailbox[i]) :
    ((outreach[i].contentOpenAI = Null) # (outreach[i].contentClaude = Null))
      => mailbox[i][k] = OnlyContent(outreach[i])

\* C19: no outreach row is emailed more than once, also when two send
\* requests for the campaign run at the same time.
C19_EmailedAtMostOnce ==
  \A i \in 1..Len(outreach) : Len(mailbox[i]) <= 1

\* The rows a handler has in the pending list it read.
ReadBy(p) == {sender[p].pending[k] : k \in 1..Len(sender[p].pending)}

\* C20: a send request changes the status only of rows of its own campaign
\* that were pending when it read them, and only to sent or failed; a row
\* whose patient lacks the email address (email campaign) or the postal
\* address (mail campaign) keeps its status, and nothing else of a row
\* changes.
C20_SendFrame ==
  [][/\ Len(outreach') = Len(outreach)
     /\ \A p \in Senders :
          (sender'[p].pending # sender[p].pending /\ sender'[p].pending # <<>>) =>
            \A k \in 1..Len(sender'[p].pending) :
              LET o == outreach[sender'[p].pending[k]]
              IN o.campaignId = OwnCampaign /\ o.status = "pending"
     /\ \A i \in 1..Len(outreach) :
          outreach'[i] # outreach[i] =>
            /\ outreach'[i] = [outreach[i] EXCEPT !.status = outreach'[i].status]
            /\ outreach'[i].status \in {"sent", "failed"}
            /\ outreach[i].campaignId = OwnCampaign
            /\ \E p \in Senders : sender'[p] # sender[p] /\ i \in ReadBy(p)
            /\ campaign.type = "email" => outreach[i].patientEmail # Null
            /\ campaign.type = "mail" => outreach[i].patientAddress # Null]_vars

\* A send has answered after marking one row sent or failed, skipping a
\* pending row without the address it needs, and leaving the other campaign's
\* pending row alone.
C20_Witness ==
  \E p \in Senders :
    /\ sender[p].pc = "done"
    /\ sender[p].status = 200
    /\ \E i \in ReadBy(p) : outreach[i].status \in {"sent", "failed"}
    /\ \E i \in 1..Len(outreach) :
         /\ outreach[i].status = "pending"
         /\ \/ outreach[i].campaignId = OtherCampaign
            \/ i \in ReadBy(p) /\ ~HasContact(campaign.type, outreach[i])

\* No send request is being handled.
NoSendInProgress == \A p \in Senders : sender[p].pc \in {"idle", "done"}

\* The rows of the campaign that carry the status sent.
MarkedSent == {i \in 1..Len(outreach) :
                 outreach[i].campaignId = OwnCampaign /\ outreach[i].status = "sent"}

\* C21: after any sequence of send requests on a campaign, of any type and
\* also when sends overlap, the campaign's sentCount equals the number of
\* its outreach rows that send has marked sent.
C21_SentCountMatches ==
  NoSendInProgress => campaign.sentCount = Cardinality(MarkedSent)

\* C22: once a campaign has been marked completed, no later request (send,
\* pause, target-patients, generate-content) changes its status.
C22_CompletedIsFinal ==
  [][campaign.status = "completed" => campaign'.status = "completed"]_vars

\* The row is one a caller of the organization may see: a row of the
\* organization, or a template care plan.
Within(row, organizationId) ==
  row.organizationId = organizationId \/ (row.kind = "care_plan" /\ row.isTemplate)

\* C23: a request by a user who is not super_admin never reads or changes a
\* campaign, a non-template care plan or a user of another organization, and
\* never moves a row into another organization.
C23_TenantIsolation ==
  [][access'.by.role # "super_admin" =>
       /\ \A id \in access'.read \cup access'.changed :
            rows[id] # AbsentRow => Within(rows[id], access'.by.organizationId)
       /\ \A id \in RowIds :
            /\ rows[id] # AbsentRow => rows'[id].organizationId = rows[id].organizationId
            /\ (rows[id] = AbsentRow /\ rows'[id] # AbsentRow)
                 => rows'[id].organizationId = access'.by.organizationId]_vars

\* C24: no FHIR request carries an access token whose stored expiry has
\* passed: an expired token is refreshed and the new tokens stored first; a
\* request answered 401 leaves the stored tokens alone and makes no FHIR
\* request.
C24_NoExpiredToken ==
  [][/\ fhir'.route # "none" => ~fhir'.expired
     /\ (epicStatus' = 401 /\ <<fhir, epicStatus, epicUser>>' # <<fhir, epicStatus, epicUser>>)
          => epicUser' = epicUser /\ fhir'.route = "none"]_vars

\* The entries of the bundles of a log, in order.
RECURSIVE EntriesOfAll(_)
EntriesOfAll(bundles) ==
  IF bundles = <<>> THEN <<>>
  ELSE EntriesOf(Head(bundles)) \o EntriesOfAll(Tail(bundles))

\* The claim's reading of a bundle's next link.
HasNextLink(bundle) ==
  "link" \in DOMAIN bundle /\ \E i \in 1..Len(bundle.link) : bundle.link[i].relation = "next"

\* C25: getAllPages returns the entries of the initial bundle followed, in
\* order, by those of every page reached through next links; it stops at the
\* first bundle without a next link; when a page request fails it returns
\* what it has gathered, and that request was its last one.
C25_PagesInOrder ==
  (pagePc = "done" /\ ~overflow) =>
    /\ allEntries = EntriesOfAll(pages)
    /\ \A i \in 1..Len(requested) :
         HasNextLink(pages[i]) /\ \E j \in 1..Len(pages[i].link) :
           pages[i].link[j] = Link("next", requested[i])
    /\ IF failed
         THEN Len(requested) = Len(pages)
         ELSE Len(requested) = Len(pages) - 1 /\ ~HasNextLink(pages[Len(pages)])

\* A page was followed and the request of the page after it was rejected.
C25_Witness ==
  /\ pagePc = "done" /\ ~overflow /\ failed
  /\ Len(pages) = 2 /\ Len(requested) = 2 /\ Len(allEntries) = 3

\* C26: getAllPages returns, whatever bundles the server answers with, when
\* every page request is answered.
C26_Terminates == <>(pagePc = "done")

\* The judge has answered with the given reply and getDualAnalysis returned.
JudgedWith(reply) ==
  Returned /\ judgePromise.status = "fulfilled" /\ judgePromise.value.content = reply

\* The outcome that names claude with claude's text.
ClaudeWith(reasoning, scores) ==
  Outcome("claude", PromiseOf("claude").value.content, reasoning, scores)

\* The replies with a label other than A, or without one, that parse to an
\* object or a number.
OtherRepliesNameClaude ==
  /\ JudgedWith(ReplySelectsB) => results.selected = ClaudeWith("more complete", ScoresBA)
  /\ JudgedWith(ReplyUnknownLabel) => results.selected = ClaudeWith("clearer", ScoresAB)
  /\ JudgedWith(ReplyNoLabel) => results.selected = ClaudeWith("more complete", Undefined)
  /\ JudgedWith(ReplyEmptyObject) => results.selected = ClaudeWith(Undefined, Undefined)
  /\ JudgedWith(ReplyJsonNumber) => results.selected = ClaudeWith(Undefined, Undefined)

\* Among the replies that parse, openai is named exactly for label A.
OpenaiOnlyForA ==
  \A reply \in {ReplySelectsA, ReplySelectsB, ReplyUnknownLabel, ReplyNoLabel,
                ReplyEmptyObject, ReplyJsonNull, ReplyJsonNumber} :
    JudgedWith(reply) => (results.selected.winner = "openai" <=> reply = ReplySelectsA)

\* C27: when the judge's reply parses as JSON, the outcome names openai
\* exactly when the reply's selected label is "A"; every other parsed reply
\* (label "B", an unknown label, no label) names claude with claude's text and
\* carries the reply's own rationale and scores, not the default rationale.
C27_ParsedReplyOutcome ==
  /\ OpenaiOnlyForA
  /\ OtherRepliesNameClaude
  /\ JudgedWith(ReplyJsonNull) => results.selected = ClaudeWith(Undefined, Undefined)

\* C27, amended: the same for every reply that parses to a value other than
\* null; the reply null parses, and gives the default outcome, with the
\* default rationale and no scores.
C27_ParsedNonNullOutcome ==
  /\ OpenaiOnlyForA
  /\ OtherRepliesNameClaude
  /\ JudgedWith(ReplyJsonNull) => results.selected = ClaudeWith(DefaultReasoning, Undefined)

\* The judge chose a label that is neither A nor B, between different texts.
C27_Witness ==
  /\ JudgedWith(ReplyUnknownLabel)
  /\ results.selected.winner = "claude"
  /\ results.selected.reasoning = "clearer"
  /\ results.openai.content # results.claude.content

\* The calls a step starts.
StartedNow ==
  {k \in DOMAIN callState' :
     /\ k \in DOMAIN callState => callState[k] = "unstarted"
     /\ callState'[k] # "unstarted"}

\* The number of groups of size prompts are handled in.
GroupCount(n, size) == (n + size - 1) \div size

\* C28: batchProcess handles the prompts in consecutive groups of batchSize
\* (5 unless given): the calls of a group are started together, no call of
\* the next group starts before every call of the current group has returned
\* and the delay has passed, and no delay follows the last group.
C28_GroupsInTurn ==
  [][/\ batchPc' # "idle" =>
          batchSize' = (IF batchSize' \in 1..MaxBatchOption THEN batchSize' ELSE 5)
     /\ (batchPc' # "idle" /\ StartedNow # {}) =>
          /\ \E g \in 0..MaxPrompts :
               StartedNow = {k \in 1..promptCount' : g * batchSize' < k /\ k <= (g + 1) * batchSize'}
          /\ \A k \in DOMAIN callState' : k < batchI' + 1 => callState[k] = "returned"
          /\ batchI' > 0 => timersFired' = timersFired + 1 /\ timersSet = timersFired + 1
     /\ (batchPc' # "idle" /\ promptCount' > 0) =>
          timersSet' <= GroupCount(promptCount', batchSize') - 1
     /\ (batchPc' = "done" /\ promptCount' > 0) =>
          /\ timersFired' = GroupCount(promptCount', batchSize') - 1
          /\ resultsLen' = promptCount']_vars

\* Six prompts were handled in a group of five and a group of one.
C28_Witness ==
  /\ batchPc = "done"
  /\ promptCount = 6
  /\ batchSize = 5
  /\ timersFired = 1
  /\ resultsLen = 6

====
